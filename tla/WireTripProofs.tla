---------------------------- MODULE WireTripProofs ----------------------------
(***************************************************************************)
(* Proofs about WireTrip: whatever the two programs send arrives as it was *)
(* sent, and whatever arrives can be relied on, for any sizes of the       *)
(* protocol.                                                               *)
(*                                                                         *)
(* A payload is a few fields and then tables of rows, so the first half is *)
(* about rows of fields: written one after another, padded, cut to their   *)
(* widths and read again.  Then every kind of message has two lemmas.  One *)
(* says that a message whose parts fit their fields Trips: it is read as   *)
(* it was written.  The other says what a receiver Reads of any fields: a  *)
(* message that fits them.  The invariant TripInv joins the two.           *)
(***************************************************************************)
EXTENDS WireTrip, WellFoundedInduction, FiniteSetTheorems, TLAPS

-----------------------------------------------------------------------------
(* Numbers. *)

\* Whatever holds of 0 and is handed on by every number holds of all.
LEMMA Induction ==
  ASSUME NEW S, 0 \in S, \A n \in Nat : n \in S => n + 1 \in S
  PROVE  \A n \in Nat : n \in S
  <1> DEFINE R == OpToRel(<, Nat)
             T == {n \in Nat : n \notin S}
  <1>1. IsWellFoundedOn(R, Nat)
    BY NatLessThanWellFounded
  <1>2. \A x, y \in Nat : y < x => <<y, x>> \in R
    BY DEF OpToRel
  <1>3. ASSUME NEW n \in T PROVE FALSE
    <2>1. T \subseteq Nat /\ T # {}
      BY <1>3
    <2> HIDE DEF R, T
    <2>2. PICK x \in T : \A y \in T : ~(<<y, x>> \in R)
      BY <1>1, <2>1, WFMin
    <2>3. x \in Nat /\ x \notin S
      BY DEF T
    <2>4. x # 0 /\ x - 1 \in Nat /\ x - 1 < x
      BY <2>3
    <2>5. x - 1 \notin T
      BY <1>2, <2>2, <2>3, <2>4
    <2>6. x - 1 \in S /\ (x - 1) + 1 = x
      BY <2>4, <2>5 DEF T
    <2>. QED BY <2>3, <2>4, <2>6
  <1>. QED BY <1>3

\* A set of naturals that is not empty has a least element.
LEMMA LeastExists ==
  ASSUME NEW S \in SUBSET Nat, S # {}
  PROVE  \E x \in S : \A y \in S : x <= y
  <1> DEFINE R == OpToRel(<, Nat)
  <1>1. IsWellFoundedOn(R, Nat)
    BY NatLessThanWellFounded
  <1>2. \A x, y \in Nat : y < x => <<y, x>> \in R
    BY DEF OpToRel
  <1> HIDE DEF R
  <1>3. PICK x \in S : \A y \in S : ~(<<y, x>> \in R)
    BY <1>1, WFMin
  <1>4. \A y \in S : ~(y < x)
    BY <1>2, <1>3
  <1>. QED BY <1>4

\* Where the k-th field of the i-th of rows of w fields is.
Place(i, k, w) == (i - 1) * w + k

\* A row begins where the one before it ends.
LEMMA NextRow ==
  ASSUME NEW i \in Int, NEW k \in Int, NEW w \in Nat
  PROVE  Place(i, k, w) \in Int /\ Place(i + 1, k, w) = Place(i, k, w) + w /\ Place(i, k, w) = i * w - w + k
  BY DEF Place

\* What comes in n rows has n times the fields of one.
LEMMA PlaceInside ==
  ASSUME NEW n \in Nat, NEW w \in Nat, NEW i \in 1 .. n, NEW k \in 1 .. w
  PROVE  /\ Place(i, k, w) \in 1 .. n * w
         /\ i * w <= n * w /\ 0 <= (i - 1) * w /\ n * w \in Nat /\ i * w \in Nat
  <1>1. n * w \in Int /\ i * w \in Int /\ (n - i) * w \in Int /\ (n - i) * w = n * w - i * w
    OBVIOUS
  <1>2. (n - i) * w >= 0 /\ (i - 1) * w >= 0 /\ n * w >= 0 /\ i * w >= 0
    OBVIOUS
  <1>3. (i - 1) * w = i * w - w
    OBVIOUS
  <1>. QED BY <1>1, <1>2, <1>3 DEF Place

\* Every field is in a row.
LEMMA PlaceOf ==
  ASSUME NEW n \in Nat, NEW w \in Nat \ {0}, NEW j \in 1 .. n * w
  PROVE  \E i \in 1 .. n, k \in 1 .. w : j = Place(i, k, w)
  <1> DEFINE q == (j - 1) \div w
             r == (j - 1) % w
  <1>1. q \in Int /\ r \in 0 .. w - 1 /\ j - 1 = q * w + r
    OBVIOUS
  <1>2. q >= 0
    <2>1. CASE q < 0
      <3>1. q * w <= (-1) * w
        BY <1>1, <2>1
      <3>. QED BY <1>1, <3>1
    <2>. QED BY <1>1, <2>1
  <1>3. q < n
    <2>1. CASE q >= n
      <3>1. q * w >= n * w
        BY <1>1, <2>1
      <3>. QED BY <1>1, <3>1
    <2>. QED BY <1>1, <2>1
  <1> HIDE DEF q, r
  <1>4. q + 1 \in 1 .. n /\ r + 1 \in 1 .. w /\ j = Place(q + 1, r + 1, w)
    BY <1>1, <1>2, <1>3 DEF Place
  <1>. QED BY <1>4

\* And the column of a field is what is left of its place.
LEMMA ColumnOf ==
  ASSUME NEW w \in Nat \ {0}, NEW i \in Nat \ {0}, NEW k \in 1 .. w
  PROVE  (Place(i, k, w) - 1) % w = k - 1
  <1> DEFINE a == Place(i, k, w) - 1
             q == a \div w
             r == a % w
  <1>1. a \in Int /\ a = (i - 1) * w + (k - 1)
    BY DEF Place
  <1> HIDE DEF a
  <1>2. q \in Int /\ r \in 0 .. w - 1 /\ a = q * w + r
    BY <1>1
  <1> HIDE DEF q, r
  <1>3. (i - 1 - q) * w = r - (k - 1)
    BY <1>1, <1>2
  <1>4. ~(i - 1 - q >= 1)
    <2>1. i - 1 - q >= 1 => (i - 1 - q) * w >= w
      BY <1>2
    <2>. QED BY <1>2, <1>3, <2>1
  <1>5. ~(i - 1 - q <= -1)
    <2>1. i - 1 - q <= -1 => (i - 1 - q) * w <= -w
      BY <1>2
    <2>. QED BY <1>2, <1>3, <2>1
  <1>6. i - 1 - q = 0
    BY <1>2, <1>4, <1>5
  <1>. QED BY <1>2, <1>3, <1>6 DEF a, r

-----------------------------------------------------------------------------
(* Rows of fields, one after another. *)

\* What one sequence after another is.
Joined(a, b, t) ==
  /\ t \in Seq(Int) /\ Len(t) = Len(a) + Len(b)
  /\ \A i \in 1 .. Len(a) : t[i] = a[i]
  /\ \A i \in 1 .. Len(b) : t[Len(a) + i] = b[i]

\* The library's concatenation is it.
LEMMA Concatenated ==
  ASSUME NEW a \in Seq(Int), NEW b \in Seq(Int)
  PROVE  Joined(a, b, a \o b)
  <1>1. a \o b \in Seq(Int) /\ Len(a \o b) = Len(a) + Len(b)
    OBVIOUS
  <1>2. \A i \in 1 .. Len(a) : (a \o b)[i] = a[i]
    OBVIOUS
  <1>3. \A i \in 1 .. Len(b) : (a \o b)[Len(a) + i] = b[i]
    OBVIOUS
  <1>. QED BY <1>1, <1>2, <1>3, Zenon DEF Joined

\* A sequence of n rows of w fields.
Table(t, rows, n, w) ==
  /\ t \in Seq(Int) /\ Len(t) = n * w
  /\ \A i \in 1 .. n : \A k \in 1 .. w : t[Place(i, k, w)] = rows[i][k]

\* Rows after rows are rows.
LEMMA TablesJoined ==
  ASSUME NEW n \in Nat, NEW m \in Nat, NEW w \in Nat,
         NEW a, NEW b, NEW top, NEW bottom, Table(a, top, n, w), Table(b, bottom, m, w),
         NEW rows, \A i \in 1 .. n : rows[i] = top[i], \A i \in 1 .. m : rows[n + i] = bottom[i]
  PROVE  Table(a \o b, rows, n + m, w)
  <1>1. /\ a \in Seq(Int) /\ Len(a) = n * w /\ \A i \in 1 .. n : \A k \in 1 .. w : a[Place(i, k, w)] = top[i][k]
        /\ b \in Seq(Int) /\ Len(b) = m * w /\ \A i \in 1 .. m : \A k \in 1 .. w : b[Place(i, k, w)] = bottom[i][k]
    BY Zenon DEF Table
  <1> DEFINE t == a \o b
  <1>2. Joined(a, b, t)
    BY <1>1, Concatenated, Zenon
  <1> HIDE DEF t
  <1>3. (n + m) * w = n * w + m * w
    OBVIOUS
  <1>4. ASSUME NEW i \in 1 .. n + m, NEW k \in 1 .. w PROVE t[Place(i, k, w)] = rows[i][k]
    <2>1. CASE i \in 1 .. n
      <3>1. Place(i, k, w) \in 1 .. n * w
        BY <2>1, PlaceInside
      <3>2. t[Place(i, k, w)] = a[Place(i, k, w)]
        <4>1. Place(i, k, w) \in 1 .. Len(a)
          BY <1>1, <3>1, Zenon
        <4>. QED BY <1>2, <4>1, Zenon DEF Joined
      <3>3. a[Place(i, k, w)] = top[i][k] /\ rows[i] = top[i]
        BY <1>1, <2>1, Zenon
      <3>. QED BY <3>2, <3>3, Zenon
    <2>2. CASE i \notin 1 .. n
      <3> DEFINE j == i - n
      <3>1. j \in 1 .. m /\ n + j = i
        BY <2>2
      <3>2. Place(j, k, w) \in 1 .. m * w
        BY <3>1, PlaceInside
      <3>3. Place(i, k, w) = n * w + Place(j, k, w)
        BY DEF Place
      <3> HIDE DEF j
      <3>4. t[n * w + Place(j, k, w)] = b[Place(j, k, w)]
        BY <1>1, <1>2, <3>2 DEF Joined
      <3>5. b[Place(j, k, w)] = bottom[j][k] /\ rows[i] = bottom[j]
        BY <1>1, <3>1
      <3>. QED BY <3>3, <3>4, <3>5
    <2>. QED BY <2>1, <2>2
  <1>5. t \in Seq(Int) /\ Len(t) = (n + m) * w
    BY <1>1, <1>2, <1>3 DEF Joined
  <1>. QED BY <1>4, <1>5, Zenon DEF Table, t

\* A row is a table.
LEMMA RowIsTable ==
  ASSUME NEW row \in Seq(Int), NEW rows, rows[1] = row
  PROVE  Table(row, rows, 1, Len(row))
  <1>1. Len(row) \in Nat /\ Len(row) = 1 * Len(row)
    OBVIOUS
  <1>2. ASSUME NEW i \in 1 .. 1, NEW k \in 1 .. Len(row) PROVE Place(i, k, Len(row)) = k /\ i = 1
    BY <1>1 DEF Place
  <1>. QED BY <1>1, <1>2 DEF Table

\* No rows are one, too.
LEMMA NoTable == ASSUME NEW rows, NEW w \in Nat PROVE Table(<<>>, rows, 0, w)
  <1>1. <<>> \in Seq(Int) /\ Len(<<>>) = 0 * w
    OBVIOUS
  <1>2. 1 .. 0 = {}
    OBVIOUS
  <1>. QED BY <1>1, <1>2 DEF Table

\* What is repeated are rows of it.
LEMMA RepeatTable ==
  ASSUME NEW n \in Nat, NEW s \in Seq(Int), Len(s) # 0
  PROVE  Table(Repeat(n, s), [i \in 1 .. n |-> s], n, Len(s))
  <1> DEFINE w == Len(s)
             t == Repeat(n, s)
             len == n * w
  <1>1. w \in Nat \ {0} /\ len \in Nat
    OBVIOUS
  <1>2. t = [j \in 1 .. len |-> s[((j - 1) % w) + 1]]
    BY DEF Repeat
  <1> HIDE DEF w, len, t
  <1>3. \A j \in 1 .. len : ((j - 1) % w) + 1 \in 1 .. w
    BY <1>1
  <1>4. t \in Seq(Int) /\ Len(t) = len
    <2>1. \A k \in 1 .. w : s[k] \in Int
      BY DEF w
    <2>2. t \in [1 .. len -> Int]
      BY <1>2, <1>3, <2>1
    <2>. QED BY <1>1, <1>2, <2>2
  <1>5. ASSUME NEW i \in 1 .. n, NEW k \in 1 .. w PROVE t[Place(i, k, w)] = s[k]
    <2>1. Place(i, k, w) \in 1 .. len
      BY <1>1, PlaceInside DEF len
    <2>2. (Place(i, k, w) - 1) % w = k - 1
      BY <1>1, ColumnOf
    <2>. QED BY <1>1, <1>2, <2>1, <2>2
  <1>. QED BY <1>4, <1>5 DEF Table, w, t, len

\* The equation of FlattenSeq's function.
Flattens(g, seqs, n) ==
  g = [i \in 1 .. n |-> IF i = 1 THEN seqs[i] ELSE g[i - 1] \o seqs[i]]

\* There is such a function for sequences of every length.
LEMMA FlattenExists ==
  ASSUME NEW seqs, NEW n \in Nat
  PROVE  \E g : Flattens(g, seqs, n)
  <1> DEFINE S == {m \in Nat : \E g : Flattens(g, seqs, m)}
  <1>1. 0 \in S
    <2>1. Flattens([i \in 1 .. 0 |-> seqs], seqs, 0)
      BY DEF Flattens
    <2>. QED BY <2>1
  <1>2. ASSUME NEW m \in Nat, m \in S PROVE m + 1 \in S
    <2>1. PICK g : Flattens(g, seqs, m)
      BY <1>2
    <2> DEFINE h == [i \in 1 .. m + 1 |-> IF i = m + 1 THEN (IF i = 1 THEN seqs[i] ELSE g[m] \o seqs[i])
                                          ELSE g[i]]
    <2>2. ASSUME NEW i \in 1 .. m + 1
          PROVE  h[i] = IF i = 1 THEN seqs[i] ELSE h[i - 1] \o seqs[i]
      <3>1. CASE i = m + 1
        <4>1. i # 1 => h[i - 1] = g[m]
          BY <3>1
        <4>2. h[i] = IF i = 1 THEN seqs[i] ELSE g[m] \o seqs[i]
          BY <3>1
        <4> HIDE DEF h
        <4>. QED BY <4>1, <4>2
      <3>2. CASE i # m + 1
        <4>1. h[i] = g[i] /\ i \in 1 .. m
          BY <3>2
        <4>2. i # 1 => h[i - 1] = g[i - 1]
          BY <4>1
        <4>3. g[i] = IF i = 1 THEN seqs[i] ELSE g[i - 1] \o seqs[i]
          BY <2>1, <4>1, Zenon DEF Flattens
        <4> HIDE DEF h
        <4>. QED BY <4>1, <4>2, <4>3
      <3>. QED BY <3>1, <3>2
    <2>3. h = [i \in 1 .. m + 1 |-> h[i]]
      OBVIOUS
    <2> HIDE DEF h
    <2>4. [i \in 1 .. m + 1 |-> h[i]]
            = [i \in 1 .. m + 1 |-> IF i = 1 THEN seqs[i] ELSE h[i - 1] \o seqs[i]]
      BY <2>2
    <2>5. Flattens(h, seqs, m + 1)
      BY <2>3, <2>4, Zenon DEF Flattens
    <2>. QED BY <2>5
  <1> HIDE DEF S
  <1>3. \A m \in Nat : m \in S
    BY <1>1, <1>2, Induction
  <1>. QED BY <1>3 DEF S

\* Rows made into one sequence are their table.
LEMMA FlattenTable ==
  ASSUME NEW n \in Nat, NEW w \in Nat, NEW rows \in Seq(Seq(Int)), Len(rows) = n,
         \A i \in 1 .. n : Len(rows[i]) = w
  PROVE  Table(FlattenSeq(rows), rows, n, w)
  <1>1. CASE n = 0
    <2>1. rows = <<>>
      BY <1>1
    <2>2. FlattenSeq(rows) = <<>>
      BY <2>1 DEF FlattenSeq
    <2>. QED BY <1>1, <2>2, NoTable
  <1>2. CASE n # 0
    <2> DEFINE g == CHOOSE g : Flattens(g, rows, n)
               S == {m \in Nat : m < n => Table(g[m + 1], rows, m + 1, w)}
    <2>1. FlattenSeq(rows) = g[n]
      <3>1. Len(rows) # 0
        BY <1>2
      <3>2. Len(rows) = n
        OBVIOUS
      <3>. QED BY <3>1, <3>2, Zenon DEF FlattenSeq, Flattens
    <2>2. Flattens(g, rows, n)
      BY FlattenExists, Zenon
    <2>3. \A i \in 1 .. n : rows[i] \in Seq(Int) /\ Len(rows[i]) = w
      OBVIOUS
    <2> HIDE DEF g
    <2>4. \A i \in 1 .. n : g[i] = IF i = 1 THEN rows[i] ELSE g[i - 1] \o rows[i]
      BY <2>2 DEF Flattens
    <2>5. 0 \in S
      <3>1. g[1] = rows[1] /\ rows[1] \in Seq(Int) /\ Len(rows[1]) = w
        BY <1>2, <2>3, <2>4
      <3>2. Table(rows[1], rows, 1, Len(rows[1]))
        BY <3>1, RowIsTable
      <3>. QED BY <3>1, <3>2
    <2>6. ASSUME NEW m \in Nat, m \in S PROVE m + 1 \in S
      <3> SUFFICES ASSUME m + 1 < n PROVE Table(g[m + 2], rows, m + 2, w)
        OBVIOUS
      <3> DEFINE row == rows[m + 2]
                 one == [i \in 1 .. 1 |-> row]
      <3>1. g[m + 2] = g[m + 1] \o row /\ row \in Seq(Int) /\ Len(row) = w
        <4>1. m + 2 \in 1 .. n /\ m + 2 # 1 /\ (m + 2) - 1 = m + 1
          OBVIOUS
        <4>. QED BY <2>3, <2>4, <4>1
      <3>2. Table(g[m + 1], rows, m + 1, w)
        BY <2>6
      <3>3. one[1] = row
        OBVIOUS
      <3> HIDE DEF one, row
      <3>4. Table(row, one, 1, w)
        BY <3>1, <3>3, RowIsTable
      <3>5. \A i \in 1 .. 1 : rows[(m + 1) + i] = one[i]
        BY <3>3 DEF row
      <3>6. Table(g[m + 1] \o row, rows, (m + 1) + 1, w)
        BY <3>2, <3>4, <3>5, TablesJoined
      <3>. QED BY <3>1, <3>6
    <2> HIDE DEF S
    <2>7. \A m \in Nat : m \in S
      BY <2>5, <2>6, Induction
    <2>8. n - 1 \in Nat /\ n - 1 < n /\ (n - 1) + 1 = n
      BY <1>2
    <2>9. Table(g[(n - 1) + 1], rows, (n - 1) + 1, w)
      BY <2>7, <2>8 DEF S
    <2>. QED BY <2>1, <2>8, <2>9
  <1>. QED BY <1>1, <1>2

\* The rows that there are, and then those that say nothing.
PaddedRows(entries, n, none) == [i \in 1 .. n |-> IF i <= Len(entries) THEN entries[i] ELSE none]

\* They are a table of the rows and what fills it up.
LEMMA PaddedTable ==
  ASSUME NEW n \in Nat, NEW entries \in Seq(Seq(Int)), Len(entries) <= n, NEW none \in Seq(Int),
         Len(none) # 0, \A i \in 1 .. Len(entries) : Len(entries[i]) = Len(none)
  PROVE  Table(Padded(entries, n, none), PaddedRows(entries, n, none), n, Len(none))
  <1> DEFINE m == Len(entries)
             w == Len(none)
             rows == PaddedRows(entries, n, none)
             rest == [i \in 1 .. n - m |-> none]
  <1>1. m \in Nat /\ w \in Nat /\ n - m \in Nat
    OBVIOUS
  <1>2. Table(FlattenSeq(entries), entries, m, w)
    BY <1>1, FlattenTable
  <1>3. Table(Repeat(n - m, none), rest, n - m, w)
    BY <1>1, RepeatTable
  <1>4. \A i \in 1 .. m : rows[i] = entries[i]
    BY DEF PaddedRows
  <1>5. \A i \in 1 .. n - m : rows[m + i] = rest[i]
    BY DEF PaddedRows
  <1>6. m + (n - m) = n /\ Padded(entries, n, none) = FlattenSeq(entries) \o Repeat(n - m, none)
    BY <1>1 DEF Padded
  <1> HIDE DEF m, w, rows, rest
  <1>7. Table(FlattenSeq(entries) \o Repeat(n - m, none), rows, m + (n - m), w)
    BY <1>1, <1>2, <1>3, <1>4, <1>5, TablesJoined
  <1>. QED BY <1>6, <1>7 DEF rows, w

-----------------------------------------------------------------------------
(* Fields. *)

\* The numbers of one, two and four bytes, and the signed ones of two.
Byte == 0 .. Modulus[1] - 1
Word == 0 .. Modulus[2] - 1
Long == 0 .. Modulus[4] - 1
Short == {x \in Int : -Modulus[2] <= 2 * x /\ 2 * x < Modulus[2]}

\* The sizes of NetCommon.h, as numbers.
LEMMA Sizes ==
  /\ Modulus[1] \in Nat /\ Modulus[2] \in Nat /\ Modulus[4] \in Nat
  /\ Modulus[1] > 255 /\ Modulus[2] > 255 /\ Modulus[4] >= 3
  /\ Width \in Nat /\ Height \in Nat /\ Width >= 3 /\ Height >= 3
  /\ Width <= Modulus[1] /\ Height <= Modulus[1]
  /\ MaxPlayers \in Nat \ {0} /\ MaxPlayers <= 255
  /\ MaxBombs \in Nat /\ MaxBombs < Modulus[1] /\ MaxPowerups \in Nat /\ MaxPowerups < Modulus[1]
  /\ PowerupTypes \in Nat \ {0} /\ PowerupTypes <= Modulus[1]
  /\ MaxBatch \in Nat \ {0} /\ MaxBatch < Modulus[1]
  /\ NameMax \in Nat /\ NameMax > 1
  /\ MaxBlast \in Nat /\ MaxBlast >= 9 /\ MaxBlast < Modulus[1]
  /\ MaxBricks = MaxBlast - 1
  <1>1. /\ Modulus[1] \in Nat /\ Modulus[2] \in Nat /\ Modulus[4] \in Nat
        /\ Width <= Modulus[1] /\ Height <= Modulus[1] /\ Width <= Modulus[4]
    BY ModulusAssumption
  <1>2. Width \in Nat /\ Height \in Nat /\ Width >= 3 /\ Height >= 3
    BY SizesAssumption, FieldsAssumption
  <1>3. MaxBlast \in Nat /\ MaxBlast >= 9
    BY <1>2 DEF MaxBlast
  <1>. QED BY <1>1, <1>2, <1>3, SizesAssumption, FieldsAssumption, SMTT(40) DEF NoWinner, MaxBricks

\* A number that fits its field comes back from it.
LEMMA Kept == ASSUME NEW M \in Nat, NEW a \in 0 .. M - 1 PROVE a % M = a
  <1> DEFINE q == a \div M
             r == a % M
  <1>1. M \in Nat \ {0} /\ a \in Nat
    OBVIOUS
  <1>2. q \in Int /\ r \in 0 .. M - 1 /\ a = q * M + r
    BY <1>1
  <1> HIDE DEF q, r
  <1>3. ~(q >= 1)
    <2>1. q >= 1 => q * M >= M
      BY <1>1, <1>2
    <2>. QED BY <1>1, <1>2, <2>1
  <1>4. ~(q <= -1)
    <2>1. q <= -1 => q * M <= -M
      BY <1>1, <1>2
    <2>. QED BY <1>1, <1>2, <2>1
  <1>5. q = 0
    BY <1>2, <1>3, <1>4
  <1>6. r = a
    BY <1>1, <1>2, <1>5
  <1>. QED BY <1>6 DEF r

\* Of the other half of a field a number comes back with the modulus added.
LEMMA KeptAbove == ASSUME NEW M \in Nat, NEW a \in Int, -M <= a, a < 0 PROVE a % M = a + M
  <1> DEFINE q == a \div M
             r == a % M
  <1>1. M \in Nat \ {0}
    OBVIOUS
  <1>2. q \in Int /\ r \in 0 .. M - 1 /\ a = q * M + r
    BY <1>1
  <1> HIDE DEF q, r
  <1>3. ~(q >= 0)
    <2>1. q >= 0 => q * M >= 0
      BY <1>1, <1>2
    <2>. QED BY <1>1, <1>2, <2>1
  <1>4. ~(q <= -2)
    <2>1. q <= -2 => q * M <= (-2) * M
      BY <1>1, <1>2
    <2>. QED BY <1>1, <1>2, <2>1
  <1>5. q = -1
    BY <1>2, <1>3, <1>4
  <1>6. r = a + M
    BY <1>1, <1>2, <1>5
  <1>. QED BY <1>6 DEF r

\* What is left of any number is a number of its field.
LEMMA Cut == ASSUME NEW M \in Nat \ {0}, NEW a \in Int PROVE a % M \in 0 .. M - 1
  OBVIOUS

\* A position is read with the sign it was written with, and every field is one.
LEMMA SignedAgain ==
  /\ \A x \in Short : x % Modulus[2] \in Word /\ Signed(x % Modulus[2]) = x
  /\ \A n \in Word : Signed(n) \in Short
  <1>1. Modulus[2] \in Nat \ {0}
    BY Sizes
  <1>2. ASSUME NEW x \in Short PROVE x % Modulus[2] \in Word /\ Signed(x % Modulus[2]) = x
    <2>1. CASE x >= 0
      <3>1. x % Modulus[2] = x
        BY <1>1, <2>1, Kept DEF Short
      <3>. QED BY <1>1, <2>1, <3>1 DEF Short, Word, Signed
    <2>2. CASE x < 0
      <3>1. x % Modulus[2] = x + Modulus[2]
        BY <1>1, <2>2, KeptAbove DEF Short
      <3>. QED BY <1>1, <2>2, <3>1 DEF Short, Word, Signed
    <2>. QED BY <2>1, <2>2 DEF Short
  <1>3. ASSUME NEW n \in Word PROVE Signed(n) \in Short
    BY <1>1 DEF Short, Word, Signed
  <1>. QED BY <1>2, <1>3

\* The fields of a payload, each a number of its width.
FieldsOf(f, widths) ==
  /\ f \in Seq(Int) /\ Len(f) = Len(widths)
  /\ \A i \in 1 .. Len(widths) : f[i] \in 0 .. Modulus[widths[i]] - 1

\* What is written are fields, whatever the numbers were.
LEMMA WrittenFields ==
  ASSUME NEW values \in Seq(Int), NEW widths \in Seq({1, 2, 4}), Len(values) = Len(widths)
  PROVE  FieldsOf([i \in DOMAIN values |-> values[i] % Modulus[widths[i]]], widths)
  <1> DEFINE f == [i \in DOMAIN values |-> values[i] % Modulus[widths[i]]]
  <1>1. DOMAIN values = 1 .. Len(widths)
    OBVIOUS
  <1>2. \A w \in {1, 2, 4} : Modulus[w] \in Nat \ {0}
    BY Sizes
  <1>3. ASSUME NEW i \in 1 .. Len(widths) PROVE f[i] \in 0 .. Modulus[widths[i]] - 1
    <2>1. values[i] \in Int /\ widths[i] \in {1, 2, 4} /\ i \in DOMAIN values
      BY <1>1
    <2>2. f[i] = values[i] % Modulus[widths[i]]
      BY <2>1
    <2>. QED BY <1>2, <2>1, <2>2, Cut
  <1>4. \A i \in 1 .. Len(widths) : f[i] \in Int
    <2>1. ASSUME NEW i \in 1 .. Len(widths) PROVE f[i] \in Int
      <3>1. widths[i] \in {1, 2, 4}
        OBVIOUS
      <3>2. Modulus[widths[i]] \in Nat
        BY <1>2, <3>1
      <3> HIDE DEF f
      <3>. QED BY <1>3, <3>2
    <2>. QED BY <2>1
  <1>5. f \in [1 .. Len(widths) -> Int]
    BY <1>1, <1>4
  <1>6. Len(widths) \in Nat
    OBVIOUS
  <1> HIDE DEF f
  <1>7. f \in Seq(Int) /\ Len(f) = Len(widths)
    BY <1>5, <1>6, SMTT(40)
  <1>8. FieldsOf(f, widths)
    BY <1>3, <1>7 DEF FieldsOf
  <1>. QED BY <1>8 DEF f

-----------------------------------------------------------------------------
(* Tables within a payload. *)

\* n rows of w fields, from field at on.
Holds(t, at, rows, n, w) ==
  \A i \in 1 .. n : \A k \in 1 .. w : t[(at - 1) + Place(i, k, w)] = rows[i][k]

\* A place within rows that a sequence has room for is one of the sequence.
LEMMA Within ==
  ASSUME NEW at \in Nat \ {0}, NEW size \in Nat, NEW len \in Nat, NEW p \in 1 .. size, (at - 1) + size <= len
  PROVE  (at - 1) + p \in 1 .. len
  OBVIOUS

\* A number of fields.
LEMMA Product == ASSUME NEW n \in Nat, NEW w \in Nat PROVE n * w \in Nat
  OBVIOUS

\* A length is one.
LEMMA LenNat == ASSUME NEW s \in Seq(Int) PROVE Len(s) \in Nat
  OBVIOUS

\* A payload that begins with some fields.
Begins(f, head) == f \in Seq(Int) /\ Len(f) >= Len(head) /\ \A i \in 1 .. Len(head) : f[i] = head[i]

\* Rows after a payload.
Extended(g, f, rows, n, w) ==
  Begins(g, f) /\ Len(g) = Len(f) + n * w /\ Holds(g, Len(f) + 1, rows, n, w)

\* What follows a sequence is held after it.
LEMMA Appended ==
  ASSUME NEW n \in Nat, NEW w \in Nat, NEW f \in Seq(Int), NEW t, NEW rows, Table(t, rows, n, w)
  PROVE  Extended(f \o t, f, rows, n, w)
  <1>1. t \in Seq(Int) /\ Len(t) = n * w /\ \A i \in 1 .. n : \A k \in 1 .. w : t[Place(i, k, w)] = rows[i][k]
    BY Zenon DEF Table
  <1> DEFINE g == f \o t
             size == n * w
  <1>2. Joined(f, t, g)
    BY <1>1, Concatenated, Zenon
  <1> HIDE DEF g
  <1>3. Len(f) \in Nat /\ size \in Nat
    BY Product, LenNat, Zenon
  <1>4. ASSUME NEW i \in 1 .. n, NEW k \in 1 .. w PROVE g[((Len(f) + 1) - 1) + Place(i, k, w)] = rows[i][k]
    <2>1. Place(i, k, w) \in 1 .. Len(t)
      BY <1>1, PlaceInside
    <2>2. ((Len(f) + 1) - 1) + Place(i, k, w) = Len(f) + Place(i, k, w)
      BY <1>3, <2>1
    <2>3. g[Len(f) + Place(i, k, w)] = t[Place(i, k, w)]
      BY <1>2, <2>1, Zenon DEF Joined
    <2>. QED BY <1>1, <2>2, <2>3, Zenon
  <1>5. Holds(g, Len(f) + 1, rows, n, w)
    BY <1>4, Zenon DEF Holds
  <1>6. g \in Seq(Int) /\ Len(g) = Len(f) + size /\ \A i \in 1 .. Len(f) : g[i] = f[i]
    BY <1>1, <1>2, Zenon DEF Joined
  <1> HIDE DEF size
  <1>7. Begins(g, f)
    BY <1>3, <1>6, SMTT(40) DEF Begins
  <1>. QED BY <1>5, <1>6, <1>7, Zenon DEF g, size, Extended

\* And stays there when more follows.
LEMMA StillHolds ==
  ASSUME NEW n \in Nat, NEW w \in Nat, NEW f \in Seq(Int), NEW t \in Seq(Int), NEW rows,
         NEW at \in Nat \ {0}, (at - 1) + n * w <= Len(f), Holds(f, at, rows, n, w)
  PROVE  Holds(f \o t, at, rows, n, w)
  <1> DEFINE g == f \o t
  <1>1. Joined(f, t, g)
    BY Concatenated, Zenon
  <1> HIDE DEF g
  <1>2. ASSUME NEW i \in 1 .. n, NEW k \in 1 .. w PROVE g[(at - 1) + Place(i, k, w)] = rows[i][k]
    <2>1. Place(i, k, w) \in 1 .. n * w /\ n * w \in Nat
      BY PlaceInside
    <2>2. Len(f) \in Nat
      OBVIOUS
    <2>3. (at - 1) + Place(i, k, w) \in 1 .. Len(f)
      BY <2>1, <2>2, Within, Zenon
    <2>4. g[(at - 1) + Place(i, k, w)] = f[(at - 1) + Place(i, k, w)]
      BY <1>1, <2>3, Zenon DEF Joined
    <2>. QED BY <2>4, Zenon DEF Holds
  <1>. QED BY <1>2, Zenon DEF Holds, g

\* The first rows of a table, and all of them with every field cut.
FirstRows(rows, l, w) == [i \in 1 .. l |-> [k \in 1 .. w |-> rows[i][k]]]
CutRows(rows, shapes, n, w) == [i \in 1 .. n |-> [k \in 1 .. w |-> rows[i][k] % Modulus[shapes[i][k]]]]

\* A payload cut to some widths, and one with room for a table.
CutBy(f, values, widths) == \A i \in 1 .. Len(values) : f[i] = values[i] % Modulus[widths[i]]
Room(f, at, n, w) == (at - 1) + n * w <= Len(f)

\* Reading rows gives those that are there.
LEMMA EntriesHeld ==
  ASSUME NEW n \in Nat, NEW w \in Nat, NEW f, NEW rows, NEW at \in Nat, NEW m \in 0 .. n,
         Holds(f, at, rows, n, w)
  PROVE  Entries(f, at, m, w) = FirstRows(rows, m, w)
  <1>1. ASSUME NEW i \in 1 .. m, NEW k \in 1 .. w PROVE f[at + (i - 1) * w + k - 1] = rows[i][k]
    <2>1. i \in 1 .. n
      OBVIOUS
    <2>2. (i - 1) * w \in Int
      OBVIOUS
    <2>3. at + (i - 1) * w + k - 1 = (at - 1) + Place(i, k, w)
      BY <2>2 DEF Place
    <2>. QED BY <2>1, <2>3, Zenon DEF Holds
  <1>. QED BY <1>1 DEF Entries, FirstRows

\* Cutting the fields of a payload cuts those of its rows.
LEMMA CutHeld ==
  ASSUME NEW n \in Nat, NEW w \in Nat, NEW at \in Nat \ {0}, NEW values \in Seq(Int), NEW widths, NEW g,
         NEW rows, NEW shapes, Room(values, at, n, w),
         Holds(values, at, rows, n, w), Holds(widths, at, shapes, n, w), CutBy(g, values, widths)
  PROVE  Holds(g, at, CutRows(rows, shapes, n, w), n, w)
  <1> DEFINE cut == CutRows(rows, shapes, n, w)
  <1>1. ASSUME NEW i \in 1 .. n, NEW k \in 1 .. w PROVE g[(at - 1) + Place(i, k, w)] = cut[i][k]
    <2> DEFINE j == (at - 1) + Place(i, k, w)
    <2>1. Place(i, k, w) \in 1 .. n * w /\ n * w \in Nat
      BY PlaceInside
    <2>2. Len(values) \in Nat
      OBVIOUS
    <2>3. j \in 1 .. Len(values)
      BY <2>1, <2>2, Within, Zenon DEF Room
    <2>4. values[j] = rows[i][k] /\ widths[j] = shapes[i][k]
      BY Zenon DEF Holds
    <2>5. cut[i][k] = rows[i][k] % Modulus[shapes[i][k]]
      BY DEF CutRows
    <2> HIDE DEF j, cut
    <2>6. g[j] = cut[i][k]
      BY <2>3, <2>4, <2>5, Zenon DEF CutBy
    <2>. QED BY <2>6, Zenon DEF j
  <1>. QED BY <1>1, Zenon DEF Holds

\* The rows of any fields are numbers of their widths.
LEMMA FieldsHeld ==
  ASSUME NEW n \in Nat, NEW w \in Nat, NEW at \in Nat \ {0}, NEW widths \in Seq({1, 2, 4}), NEW f, NEW shapes,
         FieldsOf(f, widths), Room(widths, at, n, w), Holds(widths, at, shapes, n, w)
  PROVE  /\ \A i \in 1 .. n : \A k \in 1 .. w : f[(at - 1) + Place(i, k, w)] \in 0 .. Modulus[shapes[i][k]] - 1
         /\ Holds(f, at, Entries(f, at, n, w), n, w)
  <1>1. ASSUME NEW i \in 1 .. n, NEW k \in 1 .. w
        PROVE  f[(at - 1) + Place(i, k, w)] \in 0 .. Modulus[shapes[i][k]] - 1
    <2> DEFINE j == (at - 1) + Place(i, k, w)
    <2>1. Place(i, k, w) \in 1 .. n * w /\ n * w \in Nat
      BY PlaceInside
    <2>2. Len(widths) \in Nat
      OBVIOUS
    <2>3. j \in 1 .. Len(widths)
      BY <2>1, <2>2, Within, Zenon DEF Room
    <2>4. widths[j] = shapes[i][k]
      BY Zenon DEF Holds
    <2> HIDE DEF j
    <2>5. f[j] \in 0 .. Modulus[widths[j]] - 1
      BY <2>3, Zenon DEF FieldsOf
    <2>6. f[j] \in 0 .. Modulus[shapes[i][k]] - 1
      BY <2>4, <2>5, Zenon
    <2>. QED BY <2>6, Zenon DEF j
  <1>2. ASSUME NEW i \in 1 .. n, NEW k \in 1 .. w
        PROVE  f[(at - 1) + Place(i, k, w)] = Entries(f, at, n, w)[i][k]
    <2>1. (i - 1) * w \in Int
      OBVIOUS
    <2>2. at + (i - 1) * w + k - 1 = (at - 1) + Place(i, k, w)
      BY <2>1 DEF Place
    <2>3. Entries(f, at, n, w)[i][k] = f[at + (i - 1) * w + k - 1]
      BY DEF Entries
    <2>. QED BY <2>2, <2>3, Zenon
  <1>. QED BY <1>1, <1>2, Zenon DEF Holds

\* One number n times.
LEMMA Repeated ==
  ASSUME NEW n \in Nat, NEW x \in Int
  PROVE  /\ Repeat(n, <<x>>) \in Seq({x}) /\ Len(Repeat(n, <<x>>)) = n
         /\ \A i \in 1 .. n : Repeat(n, <<x>>)[i] = x
  <1>1. Len(<<x>>) = 1 /\ n * 1 = n
    OBVIOUS
  <1>2. \A i \in 1 .. n : <<x>>[((i - 1) % 1) + 1] = x
    <2>1. ASSUME NEW i \in 1 .. n PROVE (i - 1) % 1 = 0
      OBVIOUS
    <2>. QED BY <2>1
  <1>3. Repeat(n, <<x>>) = [i \in 1 .. n |-> x]
    BY <1>1, <1>2 DEF Repeat
  <1>. QED BY <1>3

\* Widths repeated are widths.
LEMMA RepeatedWidths ==
  ASSUME NEW n \in Nat, NEW s \in Seq({1, 2, 4}), Len(s) # 0
  PROVE  Repeat(n, s) \in Seq({1, 2, 4})
  <1> DEFINE w == Len(s)
             len == n * w
  <1>1. w \in Nat \ {0} /\ len \in Nat
    OBVIOUS
  <1>2. \A k \in 1 .. w : s[k] \in {1, 2, 4}
    OBVIOUS
  <1>3. Repeat(n, s) = [j \in 1 .. len |-> s[((j - 1) % w) + 1]]
    BY DEF Repeat
  <1> HIDE DEF w, len
  <1>4. \A j \in 1 .. len : ((j - 1) % w) + 1 \in 1 .. w
    BY <1>1
  <1>5. [j \in 1 .. len |-> s[((j - 1) % w) + 1]] \in [1 .. len -> {1, 2, 4}]
    BY <1>2, <1>4
  <1>. QED BY <1>1, <1>3, <1>5

\* Widths after widths are widths.
LEMMA JoinedWidths ==
  ASSUME NEW a \in Seq({1, 2, 4}), NEW b \in Seq({1, 2, 4})
  PROVE  a \o b \in Seq({1, 2, 4})
  OBVIOUS

\* Two tables of rows after a payload.
TwiceExtended(g, f, tops, n, u, middles, m, v) ==
  /\ Begins(g, f) /\ Len(g) = Len(f) + n * u + m * v
  /\ Holds(g, Len(f) + 1, tops, n, u)
  /\ Holds(g, Len(f) + 1 + n * u, middles, m, v)

\* They are when the rows follow.
LEMMA TwoTables ==
  ASSUME NEW h \in Seq(Int), NEW n \in Nat, NEW u \in Nat, NEW a, NEW tops, Table(a, tops, n, u),
         NEW m \in Nat, NEW v \in Nat, NEW b, NEW middles, Table(b, middles, m, v)
  PROVE  TwiceExtended(h \o a \o b, h, tops, n, u, middles, m, v)
  <1> DEFINE f == h \o a
             g == f \o b
             size == n * u
             more == m * v
  <1>1. /\ Begins(f, h) /\ Len(f) = Len(h) + size /\ Holds(f, Len(h) + 1, tops, n, u)
    <2>1. Extended(h \o a, h, tops, n, u)
      BY Appended, Zenon
    <2>. QED BY <2>1, Zenon DEF Extended
  <1>2. f \in Seq(Int)
    BY <1>1, Zenon DEF Begins
  <1>3. b \in Seq(Int)
    BY Zenon DEF Table
  <1>4. size \in Nat /\ more \in Nat /\ Len(h) \in Nat
    BY Product, LenNat, Zenon
  <1>5. Len(h) + 1 \in Nat \ {0} /\ ((Len(h) + 1) - 1) + n * u <= Len(f)
    <2> HIDE DEF f
    <2>. QED BY <1>1, <1>4
  <1> HIDE DEF f
  <1>6. Begins(g, f) /\ Len(g) = Len(f) + more /\ Holds(g, Len(f) + 1, middles, m, v)
    <2>1. Extended(f \o b, f, middles, m, v)
      BY <1>2, Appended, Zenon
    <2>. QED BY <2>1, Zenon DEF Extended
  <1>7. Holds(g, Len(h) + 1, tops, n, u)
    BY <1>1, <1>2, <1>3, <1>5, StillHolds, Zenon
  <1> HIDE DEF g, size, more
  <1>8. Len(g) = Len(h) + size + more /\ Len(f) + 1 = Len(h) + 1 + size
    BY <1>1, <1>4, <1>6
  <1>9. Begins(g, h)
    <2>1. Len(h) <= Len(f) /\ Len(h) <= Len(g)
      BY <1>1, <1>4, <1>8
    <2>2. ASSUME NEW i \in 1 .. Len(h) PROVE g[i] = h[i]
      <3>1. Len(f) \in Nat
        BY <1>1, <1>4
      <3>2. i \in 1 .. Len(f)
        BY <1>4, <2>1, <3>1
      <3>. QED BY <1>1, <1>6, <3>2, Zenon DEF Begins
    <2>3. g \in Seq(Int) /\ Len(g) >= Len(h)
      BY <1>6, <1>4, <1>8 DEF Begins
    <2>. QED BY <2>2, <2>3, Zenon DEF Begins
  <1>10. Holds(g, Len(h) + 1 + size, middles, m, v)
    BY <1>6, <1>8, Zenon
  <1>. QED BY <1>7, <1>8, <1>9, <1>10, Zenon DEF f, g, size, more, TwiceExtended

\* Three tables.
ThriceExtended(g, f, tops, n, u, middles, m, v, bottoms, l, w) ==
  /\ Begins(g, f) /\ Len(g) = Len(f) + n * u + m * v + l * w
  /\ Holds(g, Len(f) + 1, tops, n, u)
  /\ Holds(g, Len(f) + 1 + n * u, middles, m, v)
  /\ Holds(g, Len(f) + 1 + n * u + m * v, bottoms, l, w)

\* They are there when they follow, too.
LEMMA ThreeTables ==
  ASSUME NEW h \in Seq(Int), NEW n \in Nat, NEW u \in Nat, NEW a, NEW tops, Table(a, tops, n, u),
         NEW m \in Nat, NEW v \in Nat, NEW b, NEW middles, Table(b, middles, m, v),
         NEW l \in Nat, NEW w \in Nat, NEW c, NEW bottoms, Table(c, bottoms, l, w)
  PROVE  ThriceExtended(h \o a \o b \o c, h, tops, n, u, middles, m, v, bottoms, l, w)
  <1> DEFINE size == n * u
             more == m * v
             most == l * w
             f == h \o a \o b
             g == f \o c
  <1>1. size \in Nat /\ more \in Nat /\ most \in Nat /\ Len(h) \in Nat
    BY Product, LenNat, Zenon
  <1>2. /\ Begins(f, h) /\ Len(f) = Len(h) + size + more /\ Holds(f, Len(h) + 1, tops, n, u)
        /\ Holds(f, Len(h) + 1 + size, middles, m, v)
    <2>1. TwiceExtended(h \o a \o b, h, tops, n, u, middles, m, v)
      BY TwoTables, Zenon
    <2>. QED BY <2>1, Zenon DEF TwiceExtended
  <1>3. f \in Seq(Int) /\ c \in Seq(Int)
    BY <1>2, Zenon DEF Begins, Table
  <1> HIDE DEF f
  <1>4. Begins(g, f) /\ Len(g) = Len(f) + most /\ Holds(g, Len(f) + 1, bottoms, l, w)
    <2>1. Extended(f \o c, f, bottoms, l, w)
      BY <1>3, Appended, Zenon
    <2>. QED BY <2>1, Zenon DEF Extended
  <1> HIDE DEF size, more, most
  <1>5. /\ Len(h) + 1 \in Nat \ {0} /\ Len(h) + 1 + size \in Nat \ {0}
        /\ ((Len(h) + 1) - 1) + size <= Len(f) /\ ((Len(h) + 1 + size) - 1) + more <= Len(f)
    BY <1>1, <1>2
  <1>6. Holds(g, Len(h) + 1, tops, n, u) /\ Holds(g, Len(h) + 1 + size, middles, m, v)
    BY <1>2, <1>3, <1>5, StillHolds, Zenon DEF size, more
  <1> HIDE DEF g
  <1>7. Len(g) = Len(h) + size + more + most /\ Len(f) + 1 = Len(h) + 1 + size + more
    BY <1>1, <1>2, <1>4
  <1>8. Begins(g, h)
    <2>1. Len(h) <= Len(f) /\ Len(h) <= Len(g) /\ Len(f) \in Nat
      BY <1>1, <1>2, <1>7
    <2>2. ASSUME NEW i \in 1 .. Len(h) PROVE g[i] = h[i]
      <3>1. i \in 1 .. Len(f)
        BY <1>1, <2>1
      <3>. QED BY <1>2, <1>4, <3>1, Zenon DEF Begins
    <2>3. g \in Seq(Int) /\ Len(g) >= Len(h)
      BY <1>4, <2>1 DEF Begins
    <2>. QED BY <2>2, <2>3, Zenon DEF Begins
  <1>9. Holds(g, Len(h) + 1 + size + more, bottoms, l, w)
    BY <1>4, <1>7, Zenon
  <1>. QED BY <1>6, <1>7, <1>8, <1>9, Zenon DEF f, g, size, more, most, ThriceExtended

-----------------------------------------------------------------------------
(* The layouts. *)

\* The rows of widths of one kind.
Same(row, n) == [i \in 1 .. n |-> row]

\* Repeated widths are a table of them.
LEMMA SameTable ==
  ASSUME NEW n \in Nat, NEW s \in Seq(Int), s \in Seq({1, 2, 4}), NEW w \in Nat \ {0}, Len(s) = w
  PROVE  Table(Repeat(n, s), Same(s, n), n, w) /\ Repeat(n, s) \in Seq({1, 2, 4})
  <1>1. Len(s) # 0
    OBVIOUS
  <1>2. Table(Repeat(n, s), [i \in 1 .. n |-> s], n, Len(s))
    BY <1>1, RepeatTable, Zenon
  <1>3. Repeat(n, s) \in Seq({1, 2, 4})
    BY <1>1, RepeatedWidths, Zenon
  <1>. QED BY <1>2, <1>3, Zenon DEF Same

\* A name's field, and a seat's, are of bytes only.
LEMMA NameWidths ==
  /\ Name \in Seq({1, 2, 4}) /\ Name \in Seq(Int) /\ Len(Name) = NameMax /\ \A k \in 1 .. NameMax : Name[k] = 1
  /\ Seat \in Seq({1, 2, 4}) /\ Seat \in Seq(Int) /\ Len(Seat) = 2 + NameMax
  /\ \A k \in 1 .. 2 + NameMax : Seat[k] = 1
  <1>1. Name \in Seq({1}) /\ Len(Name) = NameMax /\ \A k \in 1 .. NameMax : Name[k] = 1
    BY Sizes, Repeated, SMTT(40) DEF Name
  <1>2. Seat = <<1, 1>> \o Name
    BY DEF Seat
  <1>3. Seat \in Seq({1}) /\ Len(Seat) = 2 + NameMax
    BY <1>1, <1>2, Sizes
  <1>4. \A s \in Seq({1}) : s \in Seq({1, 2, 4}) /\ s \in Seq(Int) /\ \A k \in 1 .. Len(s) : s[k] = 1
    OBVIOUS
  <1>. QED BY <1>1, <1>3, <1>4

\* The fields before a name, an input batch or a table.
LEMMA HeadWidths ==
  /\ <<2>> \in Seq(Int) /\ <<4, 1, 1>> \in Seq(Int) /\ <<4, 1>> \in Seq(Int) /\ <<1, 1, 2>> \in Seq(Int)
  /\ <<4, 4, 1, 1, 1>> \in Seq(Int) /\ <<4, 4, 1, 1, 1, 1, 1, 1, 1>> \in Seq(Int)
  /\ <<2>> \in Seq({1, 2, 4}) /\ <<4, 1, 1>> \in Seq({1, 2, 4}) /\ <<4, 1>> \in Seq({1, 2, 4})
  /\ <<1, 1, 2>> \in Seq({1, 2, 4}) /\ <<4, 4, 1, 1, 1>> \in Seq({1, 2, 4})
  /\ <<4, 4, 1, 1, 1, 1, 1, 1, 1>> \in Seq({1, 2, 4})
  OBVIOUS

\* And those of their rows.
LEMMA RowWidths ==
  /\ PlayerEntry \in Seq({1, 2, 4}) /\ PlayerEntry \in Seq(Int) /\ Len(PlayerEntry) = 4
  /\ BombEntry \in Seq({1, 2, 4}) /\ BombEntry \in Seq(Int) /\ Len(BombEntry) = 4
  /\ PowerupEntry \in Seq({1, 2, 4}) /\ PowerupEntry \in Seq(Int) /\ Len(PowerupEntry) = 3
  /\ Cell \in Seq({1, 2, 4}) /\ Cell \in Seq(Int) /\ Len(Cell) = 2
  BY DEF PlayerEntry, BombEntry, PowerupEntry, Cell

\* The layouts that end with a name.
LEMMA NamedLayouts ==
  /\ Layout("Hello") = <<2>> \o Name /\ Layout("Hello") \in Seq({1, 2, 4})
  /\ Layout("MatchResult") = <<4, 1, 1>> \o Name /\ Layout("MatchResult") \in Seq({1, 2, 4})
  <1>1. Layout("Hello") = <<2>> \o Name /\ Layout("MatchResult") = <<4, 1, 1>> \o Name
    BY DEF Layout
  <1>. QED BY <1>1, NameWidths, HeadWidths, JoinedWidths

\* That of an input batch.
LEMMA InputLayout ==
  /\ Layout("Input") = <<4, 1>> \o Repeat(MaxBatch, <<1>>) /\ Layout("Input") \in Seq({1, 2, 4})
  /\ Repeat(MaxBatch, <<1>>) \in Seq(Int) /\ Len(Repeat(MaxBatch, <<1>>)) = MaxBatch
  /\ \A k \in 1 .. MaxBatch : Repeat(MaxBatch, <<1>>)[k] = 1
  <1> DEFINE r == Repeat(MaxBatch, <<1>>)
  <1>1. r \in Seq({1}) /\ Len(r) = MaxBatch /\ \A k \in 1 .. MaxBatch : r[k] = 1
    <2>1. MaxBatch \in Nat /\ 1 \in Int
      BY Sizes
    <2>. QED BY <2>1, Repeated, Zenon
  <1>2. Layout("Input") = <<4, 1>> \o r
    BY DEF Layout
  <1> HIDE DEF r
  <1>3. r \in Seq({1, 2, 4}) /\ r \in Seq(Int)
    BY <1>1
  <1>4. Layout("Input") \in Seq({1, 2, 4})
    BY <1>2, <1>3, HeadWidths, JoinedWidths
  <1>. QED BY <1>1, <1>2, <1>3, <1>4 DEF r

\* A lobby's seats.
LEMMA LobbyLayout ==
  /\ Layout("LobbyState") \in Seq({1, 2, 4})
  /\ Extended(Layout("LobbyState"), <<1, 1, 2>>, Same(Seat, MaxPlayers), MaxPlayers, 2 + NameMax)
  <1> DEFINE t == Repeat(MaxPlayers, Seat)
  <1>1. Layout("LobbyState") = <<1, 1, 2>> \o t
    BY DEF Layout
  <1>2. MaxPlayers \in Nat /\ 2 + NameMax \in Nat \ {0} /\ 2 + NameMax \in Nat
    BY Sizes
  <1>3. Table(t, Same(Seat, MaxPlayers), MaxPlayers, 2 + NameMax)
    BY <1>2, NameWidths, SameTable, Zenon
  <1>4. t \in Seq({1, 2, 4})
    BY <1>2, NameWidths, SameTable, Zenon
  <1> HIDE DEF t
  <1>5. Extended(<<1, 1, 2>> \o t, <<1, 1, 2>>, Same(Seat, MaxPlayers), MaxPlayers, 2 + NameMax)
    BY <1>2, <1>3, HeadWidths, Appended, Zenon
  <1>6. <<1, 1, 2>> \o t \in Seq({1, 2, 4})
    BY <1>4, HeadWidths, JoinedWidths
  <1>. QED BY <1>1, <1>5, <1>6

\* A snapshot's players, bombs and powerups.
LEMMA SnapshotLayout ==
  /\ Layout("Snapshot") \in Seq({1, 2, 4})
  /\ ThriceExtended(Layout("Snapshot"), <<4, 4, 1, 1, 1>>, Same(PlayerEntry, MaxPlayers), MaxPlayers, 4,
                    Same(BombEntry, MaxBombs), MaxBombs, 4, Same(PowerupEntry, MaxPowerups), MaxPowerups, 3)
  <1> DEFINE a == Repeat(MaxPlayers, PlayerEntry)
             b == Repeat(MaxBombs, BombEntry)
             c == Repeat(MaxPowerups, PowerupEntry)
             h == <<4, 4, 1, 1, 1>>
  <1>1. Layout("Snapshot") = h \o a \o b \o c
    BY DEF Layout
  <1>2. MaxPlayers \in Nat /\ MaxBombs \in Nat /\ MaxPowerups \in Nat /\ 3 \in Nat \ {0} /\ 4 \in Nat \ {0} /\ 3 \in Nat /\ 4 \in Nat
    BY Sizes
  <1>3. /\ Table(a, Same(PlayerEntry, MaxPlayers), MaxPlayers, 4) /\ Table(b, Same(BombEntry, MaxBombs), MaxBombs, 4)
        /\ Table(c, Same(PowerupEntry, MaxPowerups), MaxPowerups, 3)
    BY <1>2, RowWidths, SameTable, Zenon
  <1>4. a \in Seq({1, 2, 4}) /\ b \in Seq({1, 2, 4}) /\ c \in Seq({1, 2, 4})
    BY <1>2, RowWidths, SameTable, Zenon
  <1>5. h \in Seq(Int) /\ h \in Seq({1, 2, 4})
    BY HeadWidths
  <1> HIDE DEF a, b, c, h
  <1>6. ThriceExtended(h \o a \o b \o c, h, Same(PlayerEntry, MaxPlayers), MaxPlayers, 4,
                       Same(BombEntry, MaxBombs), MaxBombs, 4, Same(PowerupEntry, MaxPowerups), MaxPowerups, 3)
    BY <1>2, <1>3, <1>5, ThreeTables, Zenon
  <1>7. h \o a \o b \o c \in Seq({1, 2, 4})
    BY <1>4, <1>5, JoinedWidths, Zenon
  <1>. QED BY <1>1, <1>6, <1>7, Zenon DEF h

\* An explosion's cells.
LEMMA ExplosionLayout ==
  /\ Layout("ExplosionResolved") \in Seq({1, 2, 4})
  /\ TwiceExtended(Layout("ExplosionResolved"), <<4, 4, 1, 1, 1, 1, 1, 1, 1>>,
                   Same(Cell, MaxBlast), MaxBlast, 2, Same(Cell, MaxBricks), MaxBricks, 2)
  <1> DEFINE a == Repeat(MaxBlast, Cell)
             b == Repeat(MaxBricks, Cell)
             h == <<4, 4, 1, 1, 1, 1, 1, 1, 1>>
  <1>1. Layout("ExplosionResolved") = h \o a \o b
    BY DEF Layout
  <1>2. MaxBlast \in Nat /\ MaxBricks \in Nat /\ 2 \in Nat \ {0} /\ 2 \in Nat
    BY Sizes
  <1>3. Table(a, Same(Cell, MaxBlast), MaxBlast, 2) /\ Table(b, Same(Cell, MaxBricks), MaxBricks, 2)
    BY <1>2, RowWidths, SameTable, Zenon
  <1>4. a \in Seq({1, 2, 4}) /\ b \in Seq({1, 2, 4})
    BY <1>2, RowWidths, SameTable, Zenon
  <1>5. h \in Seq(Int) /\ h \in Seq({1, 2, 4})
    BY HeadWidths
  <1> HIDE DEF a, b, h
  <1>6. TwiceExtended(h \o a \o b, h, Same(Cell, MaxBlast), MaxBlast, 2, Same(Cell, MaxBricks), MaxBricks, 2)
    BY <1>2, <1>3, <1>5, TwoTables, Zenon
  <1>7. h \o a \o b \in Seq({1, 2, 4})
    BY <1>4, <1>5, JoinedWidths, Zenon
  <1>. QED BY <1>1, <1>6, <1>7, Zenon DEF h

\* The messages of a fixed number of fields.
Flat == {"Welcome", "Reject", "LevelInfo", "LobbyReady", "MatchLoaded", "MatchCancelled", "MatchStart",
         "Correction", "BombPlaced"}

\* Their layouts.
LEMMA FlatLayouts ==
  /\ Layout("Welcome") = <<2, 1, 2>> /\ Layout("Reject") = <<1, 2>> /\ Layout("LevelInfo") = <<4, 4>>
  /\ Layout("LobbyReady") = <<1>> /\ Layout("MatchLoaded") = <<4>> /\ Layout("MatchCancelled") = <<4>>
  /\ Layout("MatchStart") = <<4, 4, 4>> /\ Layout("Correction") = <<4, 4, 4, 2, 2, 1, 1, 1, 1>>
  /\ Layout("BombPlaced") = <<4, 4, 4, 1, 1, 1, 1>>
  BY DEF Layout

\* Every layout is a sequence of widths.
LEMMA LayoutWidths == \A type \in MsgTypes : Layout(type) \in Seq({1, 2, 4})
  <1>1. /\ <<2, 1, 2>> \in Seq({1, 2, 4}) /\ <<1, 2>> \in Seq({1, 2, 4}) /\ <<4, 4>> \in Seq({1, 2, 4})
        /\ <<1>> \in Seq({1, 2, 4}) /\ <<4>> \in Seq({1, 2, 4}) /\ <<4, 4, 4>> \in Seq({1, 2, 4})
        /\ <<4, 4, 4, 2, 2, 1, 1, 1, 1>> \in Seq({1, 2, 4}) /\ <<4, 4, 4, 1, 1, 1, 1>> \in Seq({1, 2, 4})
    OBVIOUS
  <1>2. MsgTypes = Flat \union {"Hello", "MatchResult", "Input", "LobbyState", "Snapshot", "ExplosionResolved"}
    BY DEF MsgTypes, ControlMsgs, Handshake, RoundControl, Flat
  <1>3. \A type \in Flat : Layout(type) \in Seq({1, 2, 4})
    BY <1>1, FlatLayouts, Zenon DEF Flat
  <1>. QED BY <1>2, <1>3, NamedLayouts, InputLayout, LobbyLayout, SnapshotLayout, ExplosionLayout, Zenon

-----------------------------------------------------------------------------
(* The messages that are sent or read, by their types. *)

\* The characters of a name, without the one that ends it.
Chars == 1 .. Modulus[1] - 1

WelcomeMsgs == [type : {"Welcome"}, version : Word, id : PlayerIds, tickRate : Word \ {0}]
RejectMsgs == {m \in [type : {"Reject"}, reason : Reasons, version : Word] :
                 m.reason # VersionMismatch => m.version = 0}
LevelInfoMsgs == [type : {"LevelInfo"}, matchId : Long \ {0}, seed : Long]
LobbyReadyMsgs == [type : {"LobbyReady"}, ready : {0, 1}]
MatchIdMsgs == [type : {"MatchLoaded", "MatchCancelled"}, matchId : Long \ {0}]
MatchStartMsgs == {m \in [type : {"MatchStart"}, matchId : Long \ {0}, goShow : Long \ {0}, unlock : Long \ {0}] :
                     m.goShow <= m.unlock}
CorrectionMsgs == [type : {"Correction"}, matchId : Long, tick : Long, seq : Long, x : Short, y : Short,
                   flags : Byte]
BombPlacedMsgs == {m \in [type : {"BombPlaced"}, matchId : Long, tick : Long, explode : Long, owner : PlayerIds,
                          cell : BoardCells, radius : Byte \ {0}] : m.explode >= m.tick}
HelloMsgs == [type : {"Hello"}, version : Word, name : Seq(Chars)]
DrawMsgs == [type : {"MatchResult"}, matchId : Long \ {0}, result : {0}, winner : {NoWinner}, name : {<<>>}]
WonMsgs == [type : {"MatchResult"}, matchId : Long \ {0}, result : {1}, winner : PlayerIds,
            name : Seq(Chars) \ {<<>>}]
InputMsgs == {m \in [type : {"Input"}, base : Long \ {0}, inputs : Seq(InputMasks)] :
                Len(m.inputs) \in 1 .. MaxBatch}
SeatValues == {EmptySeat} \union [flags : Occupied, wins : Byte, name : Seq(Chars)]
LobbyStateMsgs == {m \in [type : {"LobbyState"}, phase : {Idle, Countdown}, seconds : Byte,
                          seats : [1 .. MaxPlayers -> SeatValues]] :
                     (m.phase = Countdown) = (m.seconds > 0)}

PlayerValues == [id : PlayerIds, x : Short, y : Short, flags : PlayerFlags]
BombValues == [owner : PlayerIds, cell : BoardCells, radius : Byte \ {0}]
PowerupValues == [kind : 0 .. PowerupTypes - 1, cell : BoardCells]
SnapshotMsgs ==
  {m \in [type : {"Snapshot"}, matchId : Long, tick : Long, players : Seq(PlayerValues),
          bombs : Seq(BombValues), powerups : Seq(PowerupValues)] :
     /\ Len(m.players) <= MaxPlayers /\ Len(m.bombs) <= MaxBombs /\ Len(m.powerups) <= MaxPowerups
     /\ Ascending([i \in DOMAIN m.players |-> m.players[i].id])
     /\ Ascending([i \in DOMAIN m.bombs |-> TileCellKey(m.bombs[i].cell)])
     /\ Ascending([i \in DOMAIN m.powerups |-> TileCellKey(m.powerups[i].cell)])}

ExplosionMsgs ==
  {m \in [type : {"ExplosionResolved"}, matchId : Long, tick : Long, owner : PlayerIds, origin : BoardCells,
          radius : Byte \ {0}, killed : Byte, blast : Seq(BoardCells), bricks : Seq(BoardCells)] :
     /\ Len(m.blast) \in 1 .. MaxBlast /\ Len(m.bricks) <= MaxBricks /\ Len(m.bricks) <= Len(m.blast)
     /\ m.killed < 2 ^ MaxPlayers /\ Distinct(m.blast) /\ m.blast[1] = m.origin
     /\ \A i \in DOMAIN m.bricks : \E j \in DOMAIN m.blast : m.bricks[i] = m.blast[j]
     /\ Distinct(m.bricks)}

\* All that fit their fields once their names are cut.
Sendable == WelcomeMsgs \union RejectMsgs \union LevelInfoMsgs \union LobbyReadyMsgs \union MatchIdMsgs
            \union MatchStartMsgs \union CorrectionMsgs \union BombPlacedMsgs \union HelloMsgs
            \union DrawMsgs \union WonMsgs \union InputMsgs \union LobbyStateMsgs \union SnapshotMsgs
            \union ExplosionMsgs

\* A message that is written to the fields of its layout, and read again.
Trips(m) == FieldsOf(Serialize(m), Layout(m.type)) /\ Deserialize(m.type, Serialize(m)) = Shortened(m)

\* Whatever the fields, what is read of them is of the kind, with no name to cut.
Reads(type, kind) ==
  \A f : FieldsOf(f, Layout(type)) =>
           \/ Deserialize(type, f) = Rejected
           \/ Deserialize(type, f) \in {m \in kind : m.type = type /\ Shortened(m) = m}

\* What has to be shown of every reading.
LEMMA ReadsIf ==
  ASSUME NEW type, NEW kind,
         \A f : FieldsOf(f, Layout(type)) /\ Deserialize(type, f) # Rejected =>
                  LET m == Deserialize(type, f) IN m \in kind /\ m.type = type /\ Shortened(m) = m
  PROVE  Reads(type, kind)
  BY Zenon DEF Reads

\* The numbers that the types of messages use fit their fields.
LEMMA Fits ==
  /\ PlayerIds \subseteq Byte /\ Reasons \subseteq Byte /\ {0, 1} \subseteq Byte /\ Occupied \subseteq Byte
  /\ InputMasks \subseteq Byte /\ PlayerFlags \subseteq Byte /\ NoWinner \in Byte /\ NoWinner \notin PlayerIds
  /\ \A c \in BoardCells : c[1] \in Byte /\ c[2] \in Byte /\ c = <<c[1], c[2]>> /\ IsTileCell(c)
  /\ 0 .. PowerupTypes - 1 \subseteq Byte /\ Short \subseteq Int
  /\ Byte \subseteq Nat /\ Word \subseteq Nat /\ Long \subseteq Nat
  <1>1. PlayerIds \subseteq Byte /\ NoWinner \in Byte /\ NoWinner \notin PlayerIds
    BY Sizes DEF PlayerIds, Byte, NoWinner
  <1>2. Reasons \subseteq Byte /\ {0, 1} \subseteq Byte /\ Occupied \subseteq Byte
    BY Sizes DEF Reasons, VersionMismatch, Byte, Occupied
  <1>3. InputMasks \subseteq Byte /\ PlayerFlags \subseteq Byte /\ 0 .. PowerupTypes - 1 \subseteq Byte
    BY Sizes DEF InputMasks, PlayerFlags, Byte
  <1>4. \A c \in BoardCells : c[1] \in Byte /\ c[2] \in Byte /\ c = <<c[1], c[2]>> /\ IsTileCell(c)
    BY Sizes DEF BoardCells, Byte, IsTileCell
  <1>5. Short \subseteq Int /\ Byte \subseteq Nat /\ Word \subseteq Nat /\ Long \subseteq Nat
    BY DEF Short, Byte, Word, Long
  <1>. QED BY <1>1, <1>2, <1>3, <1>4, <1>5, Zenon

\* A field is what was written to it, cut to its width.
LEMMA Written ==
  ASSUME NEW m, m.type \in MsgTypes, Values(m) \in Seq(Int), Len(Values(m)) = Len(Layout(m.type))
  PROVE  /\ FieldsOf(Serialize(m), Layout(m.type))
         /\ \A i \in 1 .. Len(Values(m)) : Serialize(m)[i] = Values(m)[i] % Modulus[Layout(m.type)[i]]
  <1> DEFINE values == Values(m)
             widths == Layout(m.type)
  <1>1. Serialize(m) = [i \in DOMAIN values |-> values[i] % Modulus[widths[i]]]
    BY DEF Serialize
  <1>2. values \in Seq(Int) /\ widths \in Seq({1, 2, 4}) /\ Len(values) = Len(widths)
    BY LayoutWidths
  <1> HIDE DEF values, widths
  <1>3. FieldsOf(Serialize(m), widths)
    BY <1>1, <1>2, WrittenFields
  <1>4. \A i \in 1 .. Len(values) : Serialize(m)[i] = values[i] % Modulus[widths[i]]
    BY <1>1, <1>2
  <1>. QED BY <1>3, <1>4 DEF values, widths

\* Numbers that fit are kept.
LEMMA KeptIn ==
  /\ \A a \in Byte : a % Modulus[1] = a
  /\ \A a \in Word : a % Modulus[2] = a
  /\ \A a \in Long : a % Modulus[4] = a
  <1>1. Modulus[1] \in Nat /\ Modulus[2] \in Nat /\ Modulus[4] \in Nat
    BY Sizes
  <1>. QED BY <1>1, Kept DEF Byte, Word, Long

-----------------------------------------------------------------------------
(* Messages of a fixed number of fields. *)

\* A Welcome comes as it was sent.
LEMMA WelcomeTrips == \A m \in WelcomeMsgs : Trips(m)
  <1> SUFFICES ASSUME NEW m \in WelcomeMsgs PROVE Trips(m)
    OBVIOUS
  <1>1. /\ m.type = "Welcome" /\ m.version \in Word /\ m.id \in PlayerIds /\ m.tickRate \in Word \ {0}
        /\ m = [type |-> "Welcome", version |-> m.version, id |-> m.id, tickRate |-> m.tickRate]
    BY DEF WelcomeMsgs
  <1>2. Values(m) = <<m.version, m.id, m.tickRate>>
    BY <1>1 DEF Values, Handshake, RoundControl, WriteHandshake
  <1>3. Layout(m.type) = <<2, 1, 2>> /\ m.type \in MsgTypes
    BY <1>1, FlatLayouts DEF MsgTypes, ControlMsgs, Handshake, RoundControl
  <1>4. m.version \in Int /\ m.version \in Word /\ m.id \in Int /\ m.id \in Byte /\ m.tickRate \in Int /\ m.tickRate \in Word
    BY <1>1, Fits
  <1>5. Values(m) \in Seq(Int) /\ Len(Values(m)) = Len(Layout(m.type)) /\ Len(Values(m)) = 3
    BY <1>2, <1>3, <1>4
  <1> DEFINE f == Serialize(m)
  <1>6. FieldsOf(f, Layout(m.type)) /\ \A i \in 1 .. 3 : f[i] = Values(m)[i] % Modulus[Layout(m.type)[i]]
    BY <1>3, <1>5, Written
  <1> HIDE DEF f
  <1>7. f[1] = m.version % Modulus[2] /\ f[2] = m.id % Modulus[1] /\ f[3] = m.tickRate % Modulus[2]
    BY <1>2, <1>3, <1>6
  <1>8. f[1] = m.version /\ f[2] = m.id /\ f[3] = m.tickRate
    BY <1>4, <1>7, KeptIn
  <1>9. Deserialize(m.type, f) = m
    <2>1. IsPlayerId(f[2]) /\ f[3] # 0
      BY <1>1, <1>8, Fits, Sizes DEF IsPlayerId, PlayerIds
    <2>. QED BY <1>1, <1>8, <2>1 DEF Deserialize, Handshake, RoundControl, ReadHandshake, OrReject
  <1>10. Shortened(m) = m
    BY <1>1 DEF Shortened
  <1>. QED BY <1>6, <1>9, <1>10 DEF Trips, f

\* And has an id that there is, and a tick rate.
LEMMA WelcomeReads == Reads("Welcome", WelcomeMsgs)
  <1> SUFFICES ASSUME NEW f, FieldsOf(f, Layout("Welcome")), Deserialize("Welcome", f) # Rejected
               PROVE  LET m == Deserialize("Welcome", f) IN m \in WelcomeMsgs /\ m.type = "Welcome" /\ Shortened(m) = m
    BY ReadsIf, Zenon
  <1>1. f[1] \in Word /\ f[2] \in Byte /\ f[3] \in Word
    BY FlatLayouts DEF FieldsOf, Byte, Word, Long
  <1>2. IsPlayerId(f[2]) /\ f[3] # 0
    BY DEF Deserialize, Handshake, RoundControl, ReadHandshake, OrReject
  <1> DEFINE m == Deserialize("Welcome", f)
  <1>3. m = [type |-> "Welcome", version |-> f[1], id |-> f[2], tickRate |-> f[3]]
    BY <1>2 DEF Deserialize, Handshake, RoundControl, ReadHandshake, OrReject
  <1> HIDE DEF m
  <1>4. f[1] \in Word /\ f[2] \in PlayerIds /\ f[3] \in Word \ {0}
    BY <1>1, <1>2, Fits, Sizes DEF Byte, Word, Long, IsPlayerId, PlayerIds
  <1>5. m \in WelcomeMsgs
    BY <1>2, <1>3, <1>4 DEF WelcomeMsgs
  <1>6. m.type = "Welcome" /\ Shortened(m) = m
    BY <1>3 DEF Shortened
  <1>. QED BY <1>5, <1>6 DEF m

\* A LevelInfo comes as it was sent.
LEMMA LevelInfoTrips == \A m \in LevelInfoMsgs : Trips(m)
  <1> SUFFICES ASSUME NEW m \in LevelInfoMsgs PROVE Trips(m)
    OBVIOUS
  <1>1. /\ m.type = "LevelInfo" /\ m.matchId \in Long \ {0} /\ m.seed \in Long
        /\ m = [type |-> "LevelInfo", matchId |-> m.matchId, seed |-> m.seed]
    BY DEF LevelInfoMsgs
  <1>2. Values(m) = <<m.matchId, m.seed>>
    BY <1>1 DEF Values, Handshake, RoundControl, WriteRoundControl
  <1>3. Layout(m.type) = <<4, 4>> /\ m.type \in MsgTypes
    BY <1>1, FlatLayouts DEF MsgTypes, ControlMsgs, Handshake, RoundControl
  <1>4. m.matchId \in Int /\ m.matchId \in Long /\ m.seed \in Int /\ m.seed \in Long
    BY <1>1, Fits
  <1>5. Values(m) \in Seq(Int) /\ Len(Values(m)) = Len(Layout(m.type)) /\ Len(Values(m)) = 2
    BY <1>2, <1>3, <1>4
  <1> DEFINE f == Serialize(m)
  <1>6. FieldsOf(f, Layout(m.type)) /\ \A i \in 1 .. 2 : f[i] = Values(m)[i] % Modulus[Layout(m.type)[i]]
    BY <1>3, <1>5, Written
  <1> HIDE DEF f
  <1>7. f[1] = m.matchId % Modulus[4] /\ f[2] = m.seed % Modulus[4]
    BY <1>2, <1>3, <1>6
  <1>8. f[1] = m.matchId /\ f[2] = m.seed
    BY <1>4, <1>7, KeptIn
  <1>9. Deserialize(m.type, f) = m
    <2>1. f[1] # 0
      BY <1>1, <1>8, Fits, Sizes DEF Long
    <2>. QED BY <1>1, <1>8, <2>1 DEF Deserialize, Handshake, RoundControl, ReadRoundControl, OrReject
  <1>10. Shortened(m) = m
    BY <1>1 DEF Shortened
  <1>. QED BY <1>6, <1>9, <1>10 DEF Trips, f

\* And has a match.
LEMMA LevelInfoReads == Reads("LevelInfo", LevelInfoMsgs)
  <1> SUFFICES ASSUME NEW f, FieldsOf(f, Layout("LevelInfo")), Deserialize("LevelInfo", f) # Rejected
               PROVE  LET m == Deserialize("LevelInfo", f) IN m \in LevelInfoMsgs /\ m.type = "LevelInfo" /\ Shortened(m) = m
    BY ReadsIf, Zenon
  <1>1. f[1] \in Long /\ f[2] \in Long
    BY FlatLayouts DEF FieldsOf, Byte, Word, Long
  <1>2. f[1] # 0
    BY DEF Deserialize, Handshake, RoundControl, ReadRoundControl, OrReject
  <1> DEFINE m == Deserialize("LevelInfo", f)
  <1>3. m = [type |-> "LevelInfo", matchId |-> f[1], seed |-> f[2]]
    BY <1>2 DEF Deserialize, Handshake, RoundControl, ReadRoundControl, OrReject
  <1> HIDE DEF m
  <1>4. f[1] \in Long \ {0} /\ f[2] \in Long
    BY <1>1, <1>2, Fits, Sizes DEF Byte, Word, Long, Long
  <1>5. m \in LevelInfoMsgs
    BY <1>2, <1>3, <1>4 DEF LevelInfoMsgs
  <1>6. m.type = "LevelInfo" /\ Shortened(m) = m
    BY <1>3 DEF Shortened
  <1>. QED BY <1>5, <1>6 DEF m

\* A LobbyReady comes as it was sent.
LEMMA LobbyReadyTrips == \A m \in LobbyReadyMsgs : Trips(m)
  <1> SUFFICES ASSUME NEW m \in LobbyReadyMsgs PROVE Trips(m)
    OBVIOUS
  <1>1. /\ m.type = "LobbyReady" /\ m.ready \in {0, 1}
        /\ m = [type |-> "LobbyReady", ready |-> m.ready]
    BY DEF LobbyReadyMsgs
  <1>2. Values(m) = <<m.ready>>
    BY <1>1 DEF Values, Handshake, RoundControl, WriteRoundControl
  <1>3. Layout(m.type) = <<1>> /\ m.type \in MsgTypes
    BY <1>1, FlatLayouts DEF MsgTypes, ControlMsgs, Handshake, RoundControl
  <1>4. m.ready \in Int /\ m.ready \in Byte
    BY <1>1, Fits
  <1>5. Values(m) \in Seq(Int) /\ Len(Values(m)) = Len(Layout(m.type)) /\ Len(Values(m)) = 1
    BY <1>2, <1>3, <1>4
  <1> DEFINE f == Serialize(m)
  <1>6. FieldsOf(f, Layout(m.type)) /\ \A i \in 1 .. 1 : f[i] = Values(m)[i] % Modulus[Layout(m.type)[i]]
    BY <1>3, <1>5, Written
  <1> HIDE DEF f
  <1>7. f[1] = m.ready % Modulus[1]
    BY <1>2, <1>3, <1>6
  <1>8. f[1] = m.ready
    BY <1>4, <1>7, KeptIn
  <1>9. Deserialize(m.type, f) = m
    <2>1. f[1] <= 1
      BY <1>1, <1>8, Fits, Sizes DEF Byte
    <2>. QED BY <1>1, <1>8, <2>1 DEF Deserialize, Handshake, RoundControl, ReadRoundControl, OrReject
  <1>10. Shortened(m) = m
    BY <1>1 DEF Shortened
  <1>. QED BY <1>6, <1>9, <1>10 DEF Trips, f

\* And says yes or no.
LEMMA LobbyReadyReads == Reads("LobbyReady", LobbyReadyMsgs)
  <1> SUFFICES ASSUME NEW f, FieldsOf(f, Layout("LobbyReady")), Deserialize("LobbyReady", f) # Rejected
               PROVE  LET m == Deserialize("LobbyReady", f) IN m \in LobbyReadyMsgs /\ m.type = "LobbyReady" /\ Shortened(m) = m
    BY ReadsIf, Zenon
  <1>1. f[1] \in Byte
    BY FlatLayouts DEF FieldsOf, Byte, Word, Long
  <1>2. f[1] <= 1
    BY DEF Deserialize, Handshake, RoundControl, ReadRoundControl, OrReject
  <1> DEFINE m == Deserialize("LobbyReady", f)
  <1>3. m = [type |-> "LobbyReady", ready |-> f[1]]
    BY <1>2 DEF Deserialize, Handshake, RoundControl, ReadRoundControl, OrReject
  <1> HIDE DEF m
  <1>4. f[1] \in {0, 1}
    BY <1>1, <1>2, Fits, Sizes DEF Byte, Word, Long, Byte
  <1>5. m \in LobbyReadyMsgs
    BY <1>2, <1>3, <1>4 DEF LobbyReadyMsgs
  <1>6. m.type = "LobbyReady" /\ Shortened(m) = m
    BY <1>3 DEF Shortened
  <1>. QED BY <1>5, <1>6 DEF m

\* A MatchLoaded comes as it was sent.
LEMMA MatchLoadedTrips == \A m \in MatchIdMsgs : m.type = "MatchLoaded" => Trips(m)
  <1> SUFFICES ASSUME NEW m \in MatchIdMsgs, m.type = "MatchLoaded" PROVE Trips(m)
    OBVIOUS
  <1>1. /\ m.type = "MatchLoaded" /\ m.matchId \in Long \ {0}
        /\ m = [type |-> "MatchLoaded", matchId |-> m.matchId]
    BY DEF MatchIdMsgs
  <1>2. Values(m) = <<m.matchId>>
    BY <1>1 DEF Values, Handshake, RoundControl, WriteRoundControl
  <1>3. Layout(m.type) = <<4>> /\ m.type \in MsgTypes
    BY <1>1, FlatLayouts DEF MsgTypes, ControlMsgs, Handshake, RoundControl
  <1>4. m.matchId \in Int /\ m.matchId \in Long
    BY <1>1, Fits
  <1>5. Values(m) \in Seq(Int) /\ Len(Values(m)) = Len(Layout(m.type)) /\ Len(Values(m)) = 1
    BY <1>2, <1>3, <1>4
  <1> DEFINE f == Serialize(m)
  <1>6. FieldsOf(f, Layout(m.type)) /\ \A i \in 1 .. 1 : f[i] = Values(m)[i] % Modulus[Layout(m.type)[i]]
    BY <1>3, <1>5, Written
  <1> HIDE DEF f
  <1>7. f[1] = m.matchId % Modulus[4]
    BY <1>2, <1>3, <1>6
  <1>8. f[1] = m.matchId
    BY <1>4, <1>7, KeptIn
  <1>9. Deserialize(m.type, f) = m
    <2>1. f[1] # 0
      BY <1>1, <1>8, Fits, Sizes DEF Long
    <2>. QED BY <1>1, <1>8, <2>1 DEF Deserialize, Handshake, RoundControl, ReadRoundControl, OrReject
  <1>10. Shortened(m) = m
    BY <1>1 DEF Shortened
  <1>. QED BY <1>6, <1>9, <1>10 DEF Trips, f

\* And has a match.
LEMMA MatchLoadedReads == Reads("MatchLoaded", MatchIdMsgs)
  <1> SUFFICES ASSUME NEW f, FieldsOf(f, Layout("MatchLoaded")), Deserialize("MatchLoaded", f) # Rejected
               PROVE  LET m == Deserialize("MatchLoaded", f) IN m \in MatchIdMsgs /\ m.type = "MatchLoaded" /\ Shortened(m) = m
    BY ReadsIf, Zenon
  <1>1. f[1] \in Long
    BY FlatLayouts DEF FieldsOf, Byte, Word, Long
  <1>2. f[1] # 0
    BY DEF Deserialize, Handshake, RoundControl, ReadRoundControl, OrReject
  <1> DEFINE m == Deserialize("MatchLoaded", f)
  <1>3. m = [type |-> "MatchLoaded", matchId |-> f[1]]
    BY <1>2 DEF Deserialize, Handshake, RoundControl, ReadRoundControl, OrReject
  <1> HIDE DEF m
  <1>4. f[1] \in Long \ {0}
    BY <1>1, <1>2, Fits, Sizes DEF Byte, Word, Long, Long
  <1>5. m \in MatchIdMsgs
    BY <1>2, <1>3, <1>4 DEF MatchIdMsgs
  <1>6. m.type = "MatchLoaded" /\ Shortened(m) = m
    BY <1>3 DEF Shortened
  <1>. QED BY <1>5, <1>6 DEF m

\* A MatchCancelled comes as it was sent.
LEMMA MatchCancelledTrips == \A m \in MatchIdMsgs : m.type = "MatchCancelled" => Trips(m)
  <1> SUFFICES ASSUME NEW m \in MatchIdMsgs, m.type = "MatchCancelled" PROVE Trips(m)
    OBVIOUS
  <1>1. /\ m.type = "MatchCancelled" /\ m.matchId \in Long \ {0}
        /\ m = [type |-> "MatchCancelled", matchId |-> m.matchId]
    BY DEF MatchIdMsgs
  <1>2. Values(m) = <<m.matchId>>
    BY <1>1 DEF Values, Handshake, RoundControl, WriteRoundControl
  <1>3. Layout(m.type) = <<4>> /\ m.type \in MsgTypes
    BY <1>1, FlatLayouts DEF MsgTypes, ControlMsgs, Handshake, RoundControl
  <1>4. m.matchId \in Int /\ m.matchId \in Long
    BY <1>1, Fits
  <1>5. Values(m) \in Seq(Int) /\ Len(Values(m)) = Len(Layout(m.type)) /\ Len(Values(m)) = 1
    BY <1>2, <1>3, <1>4
  <1> DEFINE f == Serialize(m)
  <1>6. FieldsOf(f, Layout(m.type)) /\ \A i \in 1 .. 1 : f[i] = Values(m)[i] % Modulus[Layout(m.type)[i]]
    BY <1>3, <1>5, Written
  <1> HIDE DEF f
  <1>7. f[1] = m.matchId % Modulus[4]
    BY <1>2, <1>3, <1>6
  <1>8. f[1] = m.matchId
    BY <1>4, <1>7, KeptIn
  <1>9. Deserialize(m.type, f) = m
    <2>1. f[1] # 0
      BY <1>1, <1>8, Fits, Sizes DEF Long
    <2>. QED BY <1>1, <1>8, <2>1 DEF Deserialize, Handshake, RoundControl, ReadRoundControl, OrReject
  <1>10. Shortened(m) = m
    BY <1>1 DEF Shortened
  <1>. QED BY <1>6, <1>9, <1>10 DEF Trips, f

\* And has a match.
LEMMA MatchCancelledReads == Reads("MatchCancelled", MatchIdMsgs)
  <1> SUFFICES ASSUME NEW f, FieldsOf(f, Layout("MatchCancelled")), Deserialize("MatchCancelled", f) # Rejected
               PROVE  LET m == Deserialize("MatchCancelled", f) IN m \in MatchIdMsgs /\ m.type = "MatchCancelled" /\ Shortened(m) = m
    BY ReadsIf, Zenon
  <1>1. f[1] \in Long
    BY FlatLayouts DEF FieldsOf, Byte, Word, Long
  <1>2. f[1] # 0
    BY DEF Deserialize, Handshake, RoundControl, ReadRoundControl, OrReject
  <1> DEFINE m == Deserialize("MatchCancelled", f)
  <1>3. m = [type |-> "MatchCancelled", matchId |-> f[1]]
    BY <1>2 DEF Deserialize, Handshake, RoundControl, ReadRoundControl, OrReject
  <1> HIDE DEF m
  <1>4. f[1] \in Long \ {0}
    BY <1>1, <1>2, Fits, Sizes DEF Byte, Word, Long, Long
  <1>5. m \in MatchIdMsgs
    BY <1>2, <1>3, <1>4 DEF MatchIdMsgs
  <1>6. m.type = "MatchCancelled" /\ Shortened(m) = m
    BY <1>3 DEF Shortened
  <1>. QED BY <1>5, <1>6 DEF m

\* A MatchStart comes as it was sent.
LEMMA MatchStartTrips == \A m \in MatchStartMsgs : Trips(m)
  <1> SUFFICES ASSUME NEW m \in MatchStartMsgs PROVE Trips(m)
    OBVIOUS
  <1>1. /\ m.type = "MatchStart" /\ m.matchId \in Long \ {0} /\ m.goShow \in Long \ {0} /\ m.unlock \in Long \ {0}
        /\ m = [type |-> "MatchStart", matchId |-> m.matchId, goShow |-> m.goShow, unlock |-> m.unlock]
        /\ m.goShow <= m.unlock
    BY DEF MatchStartMsgs
  <1>2. Values(m) = <<m.matchId, m.goShow, m.unlock>>
    BY <1>1 DEF Values, Handshake, RoundControl, WriteRoundControl
  <1>3. Layout(m.type) = <<4, 4, 4>> /\ m.type \in MsgTypes
    BY <1>1, FlatLayouts DEF MsgTypes, ControlMsgs, Handshake, RoundControl
  <1>4. m.matchId \in Int /\ m.matchId \in Long /\ m.goShow \in Int /\ m.goShow \in Long /\ m.unlock \in Int /\ m.unlock \in Long
    BY <1>1, Fits
  <1>5. Values(m) \in Seq(Int) /\ Len(Values(m)) = Len(Layout(m.type)) /\ Len(Values(m)) = 3
    BY <1>2, <1>3, <1>4
  <1> DEFINE f == Serialize(m)
  <1>6. FieldsOf(f, Layout(m.type)) /\ \A i \in 1 .. 3 : f[i] = Values(m)[i] % Modulus[Layout(m.type)[i]]
    BY <1>3, <1>5, Written
  <1> HIDE DEF f
  <1>7. f[1] = m.matchId % Modulus[4] /\ f[2] = m.goShow % Modulus[4] /\ f[3] = m.unlock % Modulus[4]
    BY <1>2, <1>3, <1>6
  <1>8. f[1] = m.matchId /\ f[2] = m.goShow /\ f[3] = m.unlock
    BY <1>4, <1>7, KeptIn
  <1>9. Deserialize(m.type, f) = m
    <2>1. f[1] # 0 /\ f[2] # 0 /\ f[3] # 0 /\ f[2] <= f[3]
      BY <1>1, <1>8, Fits, Sizes DEF Long
    <2>. QED BY <1>1, <1>8, <2>1 DEF Deserialize, Handshake, RoundControl, ReadRoundControl, OrReject
  <1>10. Shortened(m) = m
    BY <1>1 DEF Shortened
  <1>. QED BY <1>6, <1>9, <1>10 DEF Trips, f

\* And has its ticks in order.
LEMMA MatchStartReads == Reads("MatchStart", MatchStartMsgs)
  <1> SUFFICES ASSUME NEW f, FieldsOf(f, Layout("MatchStart")), Deserialize("MatchStart", f) # Rejected
               PROVE  LET m == Deserialize("MatchStart", f) IN m \in MatchStartMsgs /\ m.type = "MatchStart" /\ Shortened(m) = m
    BY ReadsIf, Zenon
  <1>1. f[1] \in Long /\ f[2] \in Long /\ f[3] \in Long
    BY FlatLayouts DEF FieldsOf, Byte, Word, Long
  <1>2. f[1] # 0 /\ f[2] # 0 /\ f[3] # 0 /\ f[2] <= f[3]
    BY DEF Deserialize, Handshake, RoundControl, ReadRoundControl, OrReject
  <1> DEFINE m == Deserialize("MatchStart", f)
  <1>3. m = [type |-> "MatchStart", matchId |-> f[1], goShow |-> f[2], unlock |-> f[3]]
    BY <1>2 DEF Deserialize, Handshake, RoundControl, ReadRoundControl, OrReject
  <1> HIDE DEF m
  <1>4. f[1] \in Long \ {0} /\ f[2] \in Long \ {0} /\ f[3] \in Long \ {0}
    BY <1>1, <1>2, Fits, Sizes DEF Byte, Word, Long, Long
  <1>5. m \in MatchStartMsgs
    BY <1>2, <1>3, <1>4 DEF MatchStartMsgs
  <1>6. m.type = "MatchStart" /\ Shortened(m) = m
    BY <1>3 DEF Shortened
  <1>. QED BY <1>5, <1>6 DEF m

\* A Reject comes as it was sent.
LEMMA RejectTrips == \A m \in RejectMsgs : Trips(m)
  <1> SUFFICES ASSUME NEW m \in RejectMsgs PROVE Trips(m)
    OBVIOUS
  <1>1. /\ m.type = "Reject" /\ m.reason \in Reasons /\ m.version \in Word
        /\ m = [type |-> "Reject", reason |-> m.reason, version |-> m.version]
        /\ m.reason # VersionMismatch => m.version = 0
    BY DEF RejectMsgs
  <1>2. Values(m) = <<m.reason, m.version>>
    BY <1>1 DEF Values, Handshake, RoundControl, WriteHandshake
  <1>3. Layout(m.type) = <<1, 2>> /\ m.type \in MsgTypes
    BY <1>1, FlatLayouts DEF MsgTypes, ControlMsgs, Handshake, RoundControl
  <1>4. m.reason \in Int /\ m.reason \in Byte /\ m.version \in Int /\ m.version \in Word
    BY <1>1, Fits
  <1>5. Values(m) \in Seq(Int) /\ Len(Values(m)) = Len(Layout(m.type)) /\ Len(Values(m)) = 2
    BY <1>2, <1>3, <1>4
  <1> DEFINE f == Serialize(m)
  <1>6. FieldsOf(f, Layout(m.type)) /\ \A i \in 1 .. 2 : f[i] = Values(m)[i] % Modulus[Layout(m.type)[i]]
    BY <1>3, <1>5, Written
  <1> HIDE DEF f
  <1>7. f[1] = m.reason % Modulus[1] /\ f[2] = m.version % Modulus[2]
    BY <1>2, <1>3, <1>6
  <1>8. f[1] = m.reason /\ f[2] = m.version
    BY <1>4, <1>7, KeptIn
  <1>9. Deserialize(m.type, f) = m
    BY <1>1, <1>8 DEF Deserialize, Handshake, RoundControl, ReadHandshake, OrReject
  <1>10. Shortened(m) = m
    BY <1>1 DEF Shortened
  <1>. QED BY <1>6, <1>9, <1>10 DEF Trips, f

\* And has a version only with the reason that is about it.
LEMMA RejectReads == Reads("Reject", RejectMsgs)
  <1> SUFFICES ASSUME NEW f, FieldsOf(f, Layout("Reject")), Deserialize("Reject", f) # Rejected
               PROVE  LET m == Deserialize("Reject", f) IN m \in RejectMsgs /\ m.type = "Reject" /\ Shortened(m) = m
    BY ReadsIf, Zenon
  <1>1. f[1] \in Byte /\ f[2] \in Word
    BY FlatLayouts DEF FieldsOf, Byte, Word, Long
  <1>2. f[1] \in Reasons
    BY DEF Deserialize, Handshake, RoundControl, ReadHandshake, OrReject
  <1> DEFINE m == Deserialize("Reject", f)
             version == IF f[1] = VersionMismatch THEN f[2] ELSE 0
  <1>3. m = [type |-> "Reject", reason |-> f[1], version |-> version]
    BY <1>2 DEF Deserialize, Handshake, RoundControl, ReadHandshake, OrReject
  <1>4. version \in Word /\ (f[1] # VersionMismatch => version = 0)
    BY <1>1, Sizes DEF Word
  <1> HIDE DEF m, version
  <1>5. m \in RejectMsgs
    BY <1>2, <1>3, <1>4 DEF RejectMsgs
  <1>6. m.type = "Reject" /\ Shortened(m) = m
    BY <1>3 DEF Shortened
  <1>. QED BY <1>5, <1>6 DEF m

\* A Correction comes as it was sent, wherever the player stands.
LEMMA CorrectionTrips == \A m \in CorrectionMsgs : Trips(m)
  <1> SUFFICES ASSUME NEW m \in CorrectionMsgs PROVE Trips(m)
    OBVIOUS
  <1>1. /\ m.type = "Correction" /\ m.matchId \in Long /\ m.tick \in Long /\ m.seq \in Long /\ m.x \in Short
        /\ m.y \in Short /\ m.flags \in Byte
        /\ m = [type |-> "Correction", matchId |-> m.matchId, tick |-> m.tick, seq |-> m.seq, x |-> m.x,
                y |-> m.y, flags |-> m.flags]
    BY DEF CorrectionMsgs
  <1>2. Values(m) = <<m.matchId, m.tick, m.seq, m.x, m.y, m.flags, 0, 0, 0>>
    BY <1>1 DEF Values, Handshake, RoundControl
  <1>3. Layout(m.type) = <<4, 4, 4, 2, 2, 1, 1, 1, 1>> /\ m.type \in MsgTypes
    BY <1>1, FlatLayouts DEF MsgTypes, ControlMsgs, Handshake, RoundControl
  <1>4. m.matchId \in Int /\ m.tick \in Int /\ m.seq \in Int /\ m.x \in Int /\ m.y \in Int /\ m.flags \in Int
    BY <1>1, Fits
  <1>5. Values(m) \in Seq(Int) /\ Len(Values(m)) = Len(Layout(m.type)) /\ Len(Values(m)) = 9
    BY <1>2, <1>3, <1>4
  <1> DEFINE f == Serialize(m)
  <1>6. FieldsOf(f, Layout(m.type)) /\ \A i \in 1 .. 9 : f[i] = Values(m)[i] % Modulus[Layout(m.type)[i]]
    BY <1>3, <1>5, Written
  <1> HIDE DEF f
  <1>7. /\ f[1] = m.matchId % Modulus[4] /\ f[2] = m.tick % Modulus[4] /\ f[3] = m.seq % Modulus[4]
        /\ f[4] = m.x % Modulus[2] /\ f[5] = m.y % Modulus[2] /\ f[6] = m.flags % Modulus[1]
    BY <1>2, <1>3, <1>6
  <1>8. /\ f[1] = m.matchId /\ f[2] = m.tick /\ f[3] = m.seq /\ f[6] = m.flags
        /\ Signed(f[4]) = m.x /\ Signed(f[5]) = m.y
    BY <1>1, <1>7, KeptIn, SignedAgain
  <1>9. Deserialize(m.type, f) = m
    BY <1>1, <1>8 DEF Deserialize, Handshake, RoundControl
  <1>10. Shortened(m) = m
    BY <1>1 DEF Shortened
  <1>. QED BY <1>6, <1>9, <1>10 DEF Trips, f

\* And nothing is asked of one that is read.
LEMMA CorrectionReads == Reads("Correction", CorrectionMsgs)
  <1> SUFFICES ASSUME NEW f, FieldsOf(f, Layout("Correction")), Deserialize("Correction", f) # Rejected
               PROVE  LET m == Deserialize("Correction", f)
                      IN  m \in CorrectionMsgs /\ m.type = "Correction" /\ Shortened(m) = m
    BY ReadsIf, Zenon
  <1>1. f[1] \in Long /\ f[2] \in Long /\ f[3] \in Long /\ f[4] \in Word /\ f[5] \in Word /\ f[6] \in Byte
    <2> DEFINE w == Layout("Correction")
    <2>1. \A i \in 1 .. Len(w) : f[i] \in 0 .. Modulus[w[i]] - 1
      BY Zenon DEF FieldsOf
    <2>2. /\ Len(w) = 9 /\ w[1] = 4 /\ w[2] = 4 /\ w[3] = 4 /\ w[4] = 2
          /\ w[5] = 2 /\ w[6] = 1 /\ w[7] = 1 /\ w[8] = 1 /\ w[9] = 1
      BY FlatLayouts
    <2> HIDE DEF w
    <2>. QED BY <2>1, <2>2 DEF Byte, Word, Long
  <1> DEFINE m == Deserialize("Correction", f)
  <1>2. m = [type |-> "Correction", matchId |-> f[1], tick |-> f[2], seq |-> f[3], x |-> Signed(f[4]),
             y |-> Signed(f[5]), flags |-> f[6]]
    BY DEF Deserialize, Handshake, RoundControl
  <1> HIDE DEF m
  <1>3. Signed(f[4]) \in Short /\ Signed(f[5]) \in Short
    BY <1>1, SignedAgain
  <1>4. m \in CorrectionMsgs
    BY <1>1, <1>2, <1>3 DEF CorrectionMsgs
  <1>5. m.type = "Correction" /\ Shortened(m) = m
    BY <1>2 DEF Shortened
  <1>. QED BY <1>4, <1>5 DEF m

\* A BombPlaced comes as it was sent.
LEMMA BombPlacedTrips == \A m \in BombPlacedMsgs : Trips(m)
  <1> SUFFICES ASSUME NEW m \in BombPlacedMsgs PROVE Trips(m)
    OBVIOUS
  <1>1. /\ m.type = "BombPlaced" /\ m.matchId \in Long /\ m.tick \in Long /\ m.explode \in Long
        /\ m.owner \in PlayerIds /\ m.cell \in BoardCells /\ m.radius \in Byte \ {0} /\ m.explode >= m.tick
        /\ m = [type |-> "BombPlaced", matchId |-> m.matchId, tick |-> m.tick, explode |-> m.explode,
                owner |-> m.owner, cell |-> m.cell, radius |-> m.radius]
    BY DEF BombPlacedMsgs
  <1>2. Values(m) = <<m.matchId, m.tick, m.explode, m.owner, m.cell[1], m.cell[2], m.radius>>
    BY <1>1 DEF Values, Handshake, RoundControl
  <1>3. Layout(m.type) = <<4, 4, 4, 1, 1, 1, 1>> /\ m.type \in MsgTypes
    BY <1>1, FlatLayouts DEF MsgTypes, ControlMsgs, Handshake, RoundControl
  <1>4. /\ m.matchId \in Int /\ m.tick \in Int /\ m.explode \in Int /\ m.owner \in Int /\ m.radius \in Int
        /\ m.owner \in Byte /\ m.cell[1] \in Byte /\ m.cell[2] \in Byte /\ m.cell[1] \in Int /\ m.cell[2] \in Int
        /\ m.cell = <<m.cell[1], m.cell[2]>> /\ IsTileCell(m.cell)
    BY <1>1, Fits
  <1>5. Values(m) \in Seq(Int) /\ Len(Values(m)) = Len(Layout(m.type)) /\ Len(Values(m)) = 7
    BY <1>2, <1>3, <1>4
  <1> DEFINE f == Serialize(m)
  <1>6. FieldsOf(f, Layout(m.type)) /\ \A i \in 1 .. 7 : f[i] = Values(m)[i] % Modulus[Layout(m.type)[i]]
    BY <1>3, <1>5, Written
  <1> HIDE DEF f
  <1>7. /\ f[1] = m.matchId % Modulus[4] /\ f[2] = m.tick % Modulus[4] /\ f[3] = m.explode % Modulus[4]
        /\ f[4] = m.owner % Modulus[1] /\ f[5] = m.cell[1] % Modulus[1] /\ f[6] = m.cell[2] % Modulus[1]
        /\ f[7] = m.radius % Modulus[1]
    BY <1>2, <1>3, <1>6
  <1>8. /\ f[1] = m.matchId /\ f[2] = m.tick /\ f[3] = m.explode /\ f[4] = m.owner
        /\ <<f[5], f[6]>> = m.cell /\ f[7] = m.radius
    BY <1>1, <1>4, <1>7, KeptIn
  <1>9. Deserialize(m.type, f) = m
    <2>1. IsPlayerId(f[4]) /\ IsTileCell(<<f[5], f[6]>>) /\ f[7] # 0 /\ f[3] >= f[2]
      BY <1>1, <1>4, <1>8, Sizes DEF IsPlayerId, PlayerIds
    <2>2. Deserialize("BombPlaced", f) = ReadBombPlaced(f)
      BY DEF Deserialize, Handshake, RoundControl
    <2>. QED BY <1>1, <1>8, <2>1, <2>2 DEF ReadBombPlaced, OrReject
  <1>10. Shortened(m) = m
    BY <1>1 DEF Shortened
  <1>. QED BY <1>6, <1>9, <1>10 DEF Trips, f

\* And has an owner and a cell that there are, and does not explode before it is placed.
LEMMA BombPlacedReads == Reads("BombPlaced", BombPlacedMsgs)
  <1> SUFFICES ASSUME NEW f, FieldsOf(f, Layout("BombPlaced")), Deserialize("BombPlaced", f) # Rejected
               PROVE  LET m == Deserialize("BombPlaced", f)
                      IN  m \in BombPlacedMsgs /\ m.type = "BombPlaced" /\ Shortened(m) = m
    BY ReadsIf, Zenon
  <1>1. /\ f[1] \in Long /\ f[2] \in Long /\ f[3] \in Long /\ f[4] \in Byte /\ f[5] \in Byte /\ f[6] \in Byte
        /\ f[7] \in Byte
    <2> DEFINE w == Layout("BombPlaced")
    <2>1. \A i \in 1 .. Len(w) : f[i] \in 0 .. Modulus[w[i]] - 1
      BY Zenon DEF FieldsOf
    <2>2. /\ Len(w) = 7 /\ w[1] = 4 /\ w[2] = 4 /\ w[3] = 4 /\ w[4] = 1
          /\ w[5] = 1 /\ w[6] = 1 /\ w[7] = 1
      BY FlatLayouts
    <2> HIDE DEF w
    <2>. QED BY <2>1, <2>2 DEF Byte, Word, Long
  <1> DEFINE m == Deserialize("BombPlaced", f)
             cell == <<f[5], f[6]>>
  <1>2. m = ReadBombPlaced(f)
    BY DEF Deserialize, Handshake, RoundControl
  <1>3. IsPlayerId(f[4]) /\ IsTileCell(cell) /\ f[7] # 0 /\ f[3] >= f[2]
    BY <1>2 DEF ReadBombPlaced, OrReject
  <1>4. m = [type |-> "BombPlaced", matchId |-> f[1], tick |-> f[2], explode |-> f[3], owner |-> f[4],
             cell |-> cell, radius |-> f[7]]
    BY <1>2, <1>3 DEF ReadBombPlaced, OrReject
  <1> HIDE DEF m
  <1>5. f[4] \in PlayerIds
    BY <1>1, <1>3, Sizes DEF IsPlayerId, PlayerIds, Byte
  <1>6. cell \in BoardCells
    BY <1>1, <1>3, Sizes DEF IsTileCell, BoardCells, Byte
  <1> HIDE DEF cell
  <1>7. m \in BombPlacedMsgs
    BY <1>1, <1>3, <1>4, <1>5, <1>6 DEF BombPlacedMsgs
  <1>8. m.type = "BombPlaced" /\ Shortened(m) = m
    BY <1>4 DEF Shortened
  <1>. QED BY <1>7, <1>8 DEF m

-----------------------------------------------------------------------------
(* Names. *)

\* What a field holds of a name.
ShortName(s) == SubSeq(s, 1, Least(Len(s), NameMax - 1))

\* Part of a sequence.
LEMMA PartOf ==
  ASSUME NEW S, NEW f \in Seq(S), NEW a \in Nat \ {0}, NEW n \in Nat, (a - 1) + n <= Len(f),
         NEW z, z = (a - 1) + n
  PROVE  /\ SubSeq(f, a, z) \in Seq(S) /\ Len(SubSeq(f, a, z)) = n
         /\ \A i \in 1 .. n : SubSeq(f, a, z)[i] = f[(a - 1) + i]
  <1>1. SubSeq(f, a, z) = [i \in 1 .. n |-> f[(a - 1) + i]]
    <2>1. (1 + z) - a = n
      OBVIOUS
    <2>2. SubSeq(f, a, z) = [i \in 1 .. n |-> f[(i + a) - 1]]
      BY <2>1 DEF SubSeq
    <2>3. \A i \in 1 .. n : (i + a) - 1 = (a - 1) + i
      OBVIOUS
    <2>. QED BY <2>2, <2>3
  <1>2. \A i \in 1 .. n : f[(a - 1) + i] \in S
    OBVIOUS
  <1>. QED BY <1>1, <1>2

\* Two sequences of one length with the same elements.
LEMMA SameSeq ==
  ASSUME NEW S, NEW T, NEW a \in Seq(S), NEW b \in Seq(T), NEW n, Len(a) = n, Len(b) = n,
         \A i \in 1 .. n : a[i] = b[i]
  PROVE  a = b
  <1>1. a = [i \in 1 .. n |-> a[i]] /\ b = [i \in 1 .. n |-> b[i]]
    OBVIOUS
  <1>. QED BY <1>1

\* Two sequences that begin alike.
LEMMA SameStart ==
  ASSUME NEW S, NEW T, NEW f \in Seq(S), NEW g \in Seq(T), NEW n \in Nat, n <= Len(f), n <= Len(g),
         \A i \in 1 .. n : f[i] = g[i]
  PROVE  SubSeq(f, 1, n) = SubSeq(g, 1, n)
  <1> DEFINE a == SubSeq(f, 1, n)
             b == SubSeq(g, 1, n)
  <1>1. a \in Seq(S) /\ Len(a) = n /\ \A i \in 1 .. n : a[i] = f[i]
    <2>1. (1 - 1) + n <= Len(f) /\ n = (1 - 1) + n /\ 1 \in Nat \ {0} /\ \A i \in 1 .. n : (1 - 1) + i = i
      OBVIOUS
    <2>. QED BY <2>1, PartOf
  <1>2. b \in Seq(T) /\ Len(b) = n /\ \A i \in 1 .. n : b[i] = g[i]
    <2>1. (1 - 1) + n <= Len(g) /\ n = (1 - 1) + n /\ 1 \in Nat \ {0} /\ \A i \in 1 .. n : (1 - 1) + i = i
      OBVIOUS
    <2>. QED BY <2>1, PartOf
  <1> HIDE DEF a, b
  <1>3. a = b
    <2>1. a = [i \in 1 .. n |-> a[i]] /\ b = [i \in 1 .. n |-> b[i]]
      BY <1>1, <1>2
    <2>2. \A i \in 1 .. n : a[i] = b[i]
      BY <1>1, <1>2
    <2>. QED BY <2>1, <2>2
  <1>. QED BY <1>3 DEF a, b

\* A length is a number.
LEMMA LenOfAny == ASSUME NEW S, NEW f \in Seq(S) PROVE Len(f) \in Nat
  OBVIOUS

\* A function on the first numbers is a sequence.
LEMMA FunctionIsSeq ==
  ASSUME NEW S, NEW n \in Nat, NEW f \in [1 .. n -> S]
  PROVE  f \in Seq(S) /\ Len(f) = n
  OBVIOUS

\* The characters of a name, as many as its field has room for.
LEMMA NameLength ==
  ASSUME NEW s \in Seq(Chars)
  PROVE  LET k == Least(Len(s), NameMax - 1) IN
         /\ k \in Nat /\ k <= Len(s) /\ k < NameMax /\ NameMax \in Nat /\ (k = NameMax - 1 \/ k = Len(s))
         /\ \A i \in 1 .. Len(s) : s[i] \in Byte /\ s[i] # NUL
  <1>1. \A i \in 1 .. Len(s) : s[i] \in Chars
    OBVIOUS
  <1>2. \A c \in Chars : c \in Byte /\ c # NUL
    BY Sizes DEF Chars, Byte, NUL
  <1>3. Len(s) \in Nat /\ NameMax \in Nat /\ NameMax > 1
    BY Sizes
  <1>. QED BY <1>1, <1>2, <1>3 DEF Least

\* A name's field is of bytes.
LEMMA NameWritten ==
  ASSUME NEW s \in Seq(Chars)
  PROVE  /\ FieldName(s) \in Seq(Byte) /\ FieldName(s) \in Seq(Int) /\ Len(FieldName(s)) = NameMax
         /\ \A i \in 1 .. NameMax : FieldName(s)[i] \in Byte
  <1> DEFINE k == Least(Len(s), NameMax - 1)
  <1>1. k \in Nat /\ k <= Len(s) /\ k < NameMax /\ NameMax \in Nat
    BY NameLength, Zenon
  <1>2. \A i \in 1 .. Len(s) : s[i] \in Byte
    BY NameLength, Zenon
  <1>3. FieldName(s) = [i \in 1 .. NameMax |-> IF i <= k THEN s[i] ELSE NUL]
    BY DEF FieldName
  <1>4. NUL \in Byte
    BY Sizes DEF NUL, Byte
  <1> HIDE DEF k
  <1>5. \A i \in 1 .. NameMax : (IF i <= k THEN s[i] ELSE NUL) \in Byte
    BY <1>1, <1>2, <1>4
  <1>6. FieldName(s) \in [1 .. NameMax -> Byte]
    BY <1>3, <1>5
  <1>7. Byte \subseteq Int
    BY Fits
  <1> DEFINE g == FieldName(s)
  <1> HIDE DEF g
  <1>8. g \in [1 .. NameMax -> Byte] /\ g \in [1 .. NameMax -> Int] /\ \A i \in 1 .. NameMax : g[i] \in Byte
    BY <1>6, <1>7 DEF g
  <1>9. g \in Seq(Byte) /\ g \in Seq(Int) /\ Len(g) = NameMax
    BY <1>1, <1>8, FunctionIsSeq
  <1>. QED BY <1>8, <1>9 DEF g

\* It ends where the field has its first NUL.
LEMMA NameEnds ==
  ASSUME NEW f, NEW e \in 1 .. NameMax, e = NameMax \/ f[e] = NUL,
         \A j \in 1 .. e - 1 : f[j] # NUL
  PROVE  VisibleName(f) = SubSeq(f, 1, e - 1)
  <1> DEFINE ends == {i \in 1 .. NameMax : i = NameMax \/ f[i] = NUL}
             end == CHOOSE i \in ends : \A j \in ends : i <= j
  <1>1. NameMax \in Nat
    BY Sizes
  <1>2. e \in ends /\ \A j \in ends : e <= j
    BY <1>1
  <1>3. end \in ends /\ \A j \in ends : end <= j
    BY <1>2
  <1>4. ends \subseteq Int
    OBVIOUS
  <1>5. VisibleName(f) = SubSeq(f, 1, end - 1)
    BY DEF VisibleName
  <1> HIDE DEF end, ends
  <1>6. end = e
    BY <1>2, <1>3, <1>4
  <1>. QED BY <1>5, <1>6

\* Of a name that was written the field shows what it holds.
LEMMA NameRead ==
  ASSUME NEW s \in Seq(Chars), NEW f \in Seq(Int), Len(f) >= NameMax,
         \A i \in 1 .. NameMax : f[i] = FieldName(s)[i]
  PROVE  VisibleName(f) = ShortName(s)
  <1> DEFINE k == Least(Len(s), NameMax - 1)
  <1>1. k \in Nat /\ k <= Len(s) /\ k < NameMax /\ NameMax \in Nat /\ (k = NameMax - 1 \/ k = Len(s))
    BY NameLength, Zenon
  <1>2. \A i \in 1 .. NameMax : FieldName(s)[i] = IF i <= k THEN s[i] ELSE NUL
    BY DEF FieldName
  <1>3. \A i \in 1 .. Len(s) : s[i] # NUL
    BY NameLength, Zenon
  <1>4. ShortName(s) = SubSeq(s, 1, k)
    BY DEF ShortName
  <1> HIDE DEF k
  <1>5. k + 1 \in 1 .. NameMax /\ (k + 1 = NameMax \/ f[k + 1] = NUL) /\ (k + 1) - 1 = k
    BY <1>1, <1>2
  <1>6. \A j \in 1 .. k : f[j] # NUL /\ f[j] = s[j]
    <2> TAKE j \in 1 .. k
    <2>1. j \in 1 .. NameMax /\ j \in 1 .. Len(s) /\ j <= k
      BY <1>1, LenOfAny
    <2>2. f[j] = s[j]
      BY <1>2, <2>1
    <2>. QED BY <1>3, <2>1, <2>2
  <1>7. VisibleName(f) = SubSeq(f, 1, k)
    BY <1>5, <1>6, NameEnds
  <1>8. Len(f) \in Nat
    OBVIOUS
  <1>9. SubSeq(f, 1, k) = SubSeq(s, 1, k)
    <2>1. k <= Len(f)
      BY <1>1, <1>8
    <2>. QED BY <1>1, <1>6, <2>1, SameStart
  <1>. QED BY <1>4, <1>7, <1>9

\* A field of any bytes shows a name that fits it.
LEMMA NameSound ==
  ASSUME NEW f \in Seq(Int), Len(f) = NameMax, \A i \in 1 .. NameMax : f[i] \in Byte
  PROVE  VisibleName(f) \in Seq(Chars) /\ Len(VisibleName(f)) < NameMax
  <1> DEFINE ends == {i \in 1 .. NameMax : i = NameMax \/ f[i] = NUL}
  <1>1. NameMax \in Nat /\ NameMax > 1
    BY Sizes
  <1>2. NameMax \in ends /\ ends \in SUBSET Nat
    BY <1>1
  <1>3. PICK e \in ends : \A j \in ends : e <= j
    BY <1>2, LeastExists
  <1>4. e \in 1 .. NameMax /\ (e = NameMax \/ f[e] = NUL)
    BY <1>3
  <1>5. \A j \in 1 .. e - 1 : j \in 1 .. NameMax /\ f[j] # NUL
    BY <1>1, <1>3, <1>4
  <1> HIDE DEF ends
  <1>6. VisibleName(f) = SubSeq(f, 1, e - 1)
    BY <1>4, <1>5, NameEnds
  <1> DEFINE g == SubSeq(f, 1, e - 1)
  <1>7. Len(g) = e - 1 /\ (\A i \in 1 .. e - 1 : g[i] = f[i]) /\ g \in Seq(Int)
    <2>1. e - 1 \in Nat /\ 1 \in Nat \ {0} /\ (1 - 1) + (e - 1) <= Len(f) /\ e - 1 = (1 - 1) + (e - 1)
      BY <1>1, <1>4
    <2>2. \A i \in 1 .. e - 1 : (1 - 1) + i = i
      BY <1>4
    <2>. QED BY <2>1, <2>2, PartOf
  <1> HIDE DEF g
  <1>8. \A i \in 1 .. e - 1 : g[i] \in Chars
    BY <1>5, <1>7 DEF Byte, Chars, NUL
  <1>9. g \in Seq(Chars)
    <2>1. g \in [1 .. e - 1 -> Chars]
      BY <1>7, <1>8
    <2>2. e - 1 \in Nat
      BY <1>4
    <2>. QED BY <2>1, <2>2
  <1>10. Len(g) < NameMax
    BY <1>1, <1>4, <1>7
  <1>. QED BY <1>6, <1>9, <1>10 DEF g

\* A name that fits is not cut, and no cut makes a name empty.
LEMMA NameKept ==
  ASSUME NEW s \in Seq(Chars)
  PROVE  /\ Len(s) < NameMax => ShortName(s) = s
         /\ s # <<>> => ShortName(s) # <<>>
         /\ ShortName(s) \in Seq(Chars)
  <1> DEFINE k == Least(Len(s), NameMax - 1)
             g == SubSeq(s, 1, k)
  <1>1. k \in Nat /\ k <= Len(s) /\ (Len(s) < NameMax => k = Len(s)) /\ (Len(s) > 0 => k > 0) /\ Len(s) \in Nat
    BY Sizes, SMTT(40) DEF Least
  <1>2. ShortName(s) = g
    BY DEF ShortName
  <1> HIDE DEF k
  <1>3. g \in Seq(Chars) /\ Len(g) = k /\ \A i \in 1 .. k : g[i] = s[i]
    <2>1. 1 \in Nat \ {0} /\ (1 - 1) + k <= Len(s) /\ k = (1 - 1) + k /\ \A i \in 1 .. k : (1 - 1) + i = i
      BY <1>1
    <2>. QED BY <1>1, <2>1, PartOf
  <1> HIDE DEF g
  <1>4. Len(s) < NameMax => g = s
    <2> SUFFICES ASSUME Len(s) < NameMax PROVE g = s
      OBVIOUS
    <2>1. g = [i \in 1 .. k |-> g[i]] /\ s = [i \in 1 .. k |-> s[i]]
      BY <1>1, <1>3
    <2>. QED BY <1>3, <2>1
  <1>5. s # <<>> => g # <<>>
    <2> SUFFICES ASSUME s # <<>> PROVE g # <<>>
      OBVIOUS
    <2>1. Len(s) > 0
      BY <1>1
    <2>2. Len(g) > 0
      BY <1>1, <1>3, <2>1
    <2>. QED BY <2>2
  <1>. QED BY <1>2, <1>3, <1>4, <1>5

-----------------------------------------------------------------------------
(* Messages that end with a name. *)

\* What is after some fields.
LEMMA After ==
  ASSUME NEW h \in Nat, NEW n \in Nat, NEW len, len = h + n
  PROVE  h + 1 \in Nat \ {0} /\ ((h + 1) - 1) + n <= len /\ h + n = ((h + 1) - 1) + n /\ (h + 1) - 1 = h
  OBVIOUS

\* The fields before the name are written as they are, and it can be read again.
LEMMA NamedWritten ==
  ASSUME NEW m, m.type \in MsgTypes, NEW h \in Seq(Int), NEW widths \in Seq(Int), Len(h) = Len(widths),
         NEW s \in Seq(Chars), Values(m) = h \o FieldName(s), Layout(m.type) = widths \o Name
  PROVE  /\ FieldsOf(Serialize(m), Layout(m.type))
         /\ \A i \in 1 .. Len(h) : Serialize(m)[i] = h[i] % Modulus[widths[i]]
         /\ VisibleName(SubSeq(Serialize(m), Len(h) + 1, Len(h) + NameMax)) = ShortName(s)
  <1> DEFINE v == Values(m)
             w == Layout(m.type)
             f == Serialize(m)
             n == FieldName(s)
  <1>1. n \in Seq(Int) /\ Len(n) = NameMax /\ \A i \in 1 .. NameMax : n[i] \in Byte
    BY NameWritten, Zenon
  <1>2. Joined(h, n, v)
    BY <1>1, Concatenated, Zenon
  <1>3. Joined(widths, Name, w)
    BY NameWidths, Concatenated, Zenon
  <1>4. Len(Name) = NameMax /\ NameMax \in Nat /\ Len(h) \in Nat /\ \A k \in 1 .. NameMax : Name[k] = 1
    BY NameWidths, Sizes, LenNat, Zenon
  <1> HIDE DEF v, w, n, f
  <1>5. v \in Seq(Int) /\ Len(v) = Len(w) /\ Len(v) = Len(h) + NameMax
    BY <1>1, <1>2, <1>3, <1>4, Zenon DEF Joined
  <1>6. FieldsOf(f, w) /\ \A i \in 1 .. Len(v) : f[i] = v[i] % Modulus[w[i]]
    BY <1>5, Written, Zenon DEF v, w, f
  <1>7. ASSUME NEW i \in 1 .. Len(h) PROVE f[i] = h[i] % Modulus[widths[i]]
    <2>1. i \in 1 .. Len(v) /\ i \in 1 .. Len(widths)
      BY <1>4, <1>5
    <2>2. v[i] = h[i] /\ w[i] = widths[i]
      BY <1>2, <1>3, <2>1, Zenon DEF Joined
    <2>. QED BY <1>6, <2>1, <2>2, Zenon
  <1>8. ASSUME NEW i \in 1 .. NameMax PROVE f[Len(h) + i] = n[i]
    <2>1. Len(h) + i \in 1 .. Len(v)
      BY <1>4, <1>5
    <2>2. v[Len(h) + i] = n[i]
      BY <1>1, <1>2, Zenon DEF Joined
    <2>3. w[Len(h) + i] = 1
      <3>1. w[Len(widths) + i] = Name[i] /\ Name[i] = 1
        BY <1>3, <1>4, Zenon DEF Joined
      <3>. QED BY <3>1, Zenon
    <2>4. n[i] % Modulus[1] = n[i]
      BY <1>1, KeptIn, Zenon
    <2>. QED BY <1>6, <2>1, <2>2, <2>3, <2>4, Zenon
  <1> DEFINE e == SubSeq(f, Len(h) + 1, Len(h) + NameMax)
  <1>9. e \in Seq(Int) /\ Len(e) = NameMax /\ \A i \in 1 .. NameMax : e[i] = f[Len(h) + i]
    <2> DEFINE a == Len(h) + 1
               z == Len(h) + NameMax
    <2>1. f \in Seq(Int) /\ Len(f) = Len(w)
      BY <1>6, Zenon DEF FieldsOf
    <2>2. a \in Nat \ {0} /\ (a - 1) + NameMax <= Len(f) /\ z = (a - 1) + NameMax /\ a - 1 = Len(h)
      <3>1. Len(f) = Len(h) + NameMax
        BY <1>5, <2>1, Zenon
      <3>. QED BY <1>4, <3>1, After
    <2> HIDE DEF a, z
    <2>3. SubSeq(f, a, z) \in Seq(Int) /\ Len(SubSeq(f, a, z)) = NameMax
          /\ \A i \in 1 .. NameMax : SubSeq(f, a, z)[i] = f[(a - 1) + i]
      BY <1>4, <2>1, <2>2, PartOf
    <2>. QED BY <2>2, <2>3, Zenon DEF a, z
  <1> HIDE DEF e
  <1>10. Len(e) >= NameMax /\ \A i \in 1 .. NameMax : e[i] = FieldName(s)[i]
    <2>1. Len(e) >= NameMax
      BY <1>4, <1>9
    <2>. QED BY <1>8, <1>9, <2>1, Zenon DEF n
  <1>11. VisibleName(e) = ShortName(s)
    BY <1>9, <1>10, NameRead, Zenon
  <1>. QED BY <1>6, <1>7, <1>11, Zenon DEF f, w, e

\* Whatever the fields, the name that is read ends within its own.
LEMMA NamedFields ==
  ASSUME NEW widths \in Seq(Int), NEW f, FieldsOf(f, widths \o Name)
  PROVE  /\ \A i \in 1 .. Len(widths) : f[i] \in 0 .. Modulus[widths[i]] - 1
         /\ VisibleName(SubSeq(f, Len(widths) + 1, Len(widths) + NameMax)) \in Seq(Chars)
         /\ Len(VisibleName(SubSeq(f, Len(widths) + 1, Len(widths) + NameMax))) < NameMax
  <1> DEFINE w == widths \o Name
             h == Len(widths)
  <1>1. Joined(widths, Name, w)
    BY NameWidths, Concatenated, Zenon
  <1>2. Len(Name) = NameMax /\ NameMax \in Nat /\ h \in Nat /\ \A k \in 1 .. NameMax : Name[k] = 1
    BY NameWidths, Sizes, LenNat, Zenon
  <1>3. f \in Seq(Int) /\ Len(f) = Len(w) /\ \A i \in 1 .. Len(w) : f[i] \in 0 .. Modulus[w[i]] - 1
    BY Zenon DEF FieldsOf
  <1> HIDE DEF w
  <1>4. Len(w) = h + NameMax
    BY <1>1, <1>2, Zenon DEF Joined
  <1>5. ASSUME NEW i \in 1 .. h PROVE f[i] \in 0 .. Modulus[widths[i]] - 1
    <2>1. i \in 1 .. Len(w)
      BY <1>2, <1>4
    <2>2. w[i] = widths[i]
      BY <1>1, Zenon DEF Joined
    <2>3. f[i] \in 0 .. Modulus[w[i]] - 1
      BY <1>3, <2>1, Zenon
    <2>. QED BY <2>2, <2>3, Zenon
  <1>6. ASSUME NEW i \in 1 .. NameMax PROVE f[h + i] \in Byte
    <2>1. h + i \in 1 .. Len(w)
      BY <1>2, <1>4
    <2>2. w[h + i] = 1
      <3>1. w[h + i] = Name[i] /\ Name[i] = 1
        BY <1>1, <1>2, Zenon DEF Joined
      <3>. QED BY <3>1, Zenon
    <2>3. f[h + i] \in 0 .. Modulus[w[h + i]] - 1
      BY <1>3, <2>1, Zenon
    <2>. QED BY <2>2, <2>3, Zenon DEF Byte
  <1> DEFINE a == h + 1
             z == h + NameMax
             e == SubSeq(f, a, z)
  <1>7. a \in Nat \ {0} /\ (a - 1) + NameMax <= Len(f) /\ z = (a - 1) + NameMax /\ a - 1 = h
    <2> HIDE DEF h
    <2>. QED BY <1>2, <1>3, <1>4
  <1> HIDE DEF h, a, z
  <1>8. e \in Seq(Int) /\ Len(e) = NameMax /\ \A i \in 1 .. NameMax : e[i] = f[(a - 1) + i]
    BY <1>2, <1>3, <1>7, PartOf
  <1> HIDE DEF e
  <1>9. VisibleName(e) \in Seq(Chars) /\ Len(VisibleName(e)) < NameMax
    <2>1. \A i \in 1 .. NameMax : e[i] \in Byte
      BY <1>6, <1>7, <1>8, Zenon
    <2>. QED BY <1>8, <2>1, NameSound, Zenon
  <1>. QED BY <1>5, <1>9, Zenon DEF e, a, z, h

\* A Hello comes with the name that fits it.
LEMMA HelloTrips == \A m \in HelloMsgs : Trips(m)
  <1> SUFFICES ASSUME NEW m \in HelloMsgs PROVE Trips(m)
    OBVIOUS
  <1>1. /\ m.type = "Hello" /\ m.version \in Word /\ m.name \in Seq(Chars)
        /\ m = [type |-> "Hello", version |-> m.version, name |-> m.name]
    BY DEF HelloMsgs
  <1> DEFINE h == <<m.version>>
             f == Serialize(m)
  <1>2. Values(m) = h \o FieldName(m.name)
    BY <1>1 DEF Values, Handshake, RoundControl, WriteHandshake
  <1>3. m.type \in MsgTypes /\ Layout(m.type) = <<2>> \o Name /\ <<2>> \in Seq(Int)
    BY <1>1, NamedLayouts, HeadWidths DEF MsgTypes, ControlMsgs, Handshake
  <1>4. h \in Seq(Int) /\ Len(h) = Len(<<2>>) /\ Len(h) = 1 /\ h[1] = m.version
    BY <1>1, Fits
  <1> HIDE DEF h, f
  <1>5. /\ FieldsOf(f, Layout(m.type)) /\ \A i \in 1 .. Len(h) : f[i] = h[i] % Modulus[<<2>>[i]]
        /\ VisibleName(SubSeq(f, Len(h) + 1, Len(h) + NameMax)) = ShortName(m.name)
    BY <1>1, <1>2, <1>3, <1>4, NamedWritten, Zenon DEF f
  <1>6. f[1] = m.version
    BY <1>1, <1>4, <1>5, KeptIn
  <1>7. VisibleName(SubSeq(f, 2, 1 + NameMax)) = ShortName(m.name)
    BY <1>4, <1>5
  <1>8. Deserialize(m.type, f) = [type |-> "Hello", version |-> m.version, name |-> ShortName(m.name)]
    BY <1>1, <1>6, <1>7 DEF Deserialize, Handshake, RoundControl, ReadHandshake
  <1>9. Shortened(m) = [type |-> "Hello", version |-> m.version, name |-> ShortName(m.name)]
    BY <1>1 DEF Shortened, ShortName
  <1>. QED BY <1>5, <1>8, <1>9 DEF Trips, f

\* And any that is read has such a name.
LEMMA HelloReads == Reads("Hello", HelloMsgs)
  <1> SUFFICES ASSUME NEW f, FieldsOf(f, Layout("Hello")), Deserialize("Hello", f) # Rejected
               PROVE  LET m == Deserialize("Hello", f) IN m \in HelloMsgs /\ m.type = "Hello" /\ Shortened(m) = m
    BY ReadsIf, Zenon
  <1> DEFINE m == Deserialize("Hello", f)
             name == VisibleName(SubSeq(f, 2, 1 + NameMax))
  <1>1. FieldsOf(f, <<2>> \o Name) /\ <<2>> \in Seq(Int)
    BY NamedLayouts, HeadWidths, Zenon
  <1>2. /\ \A i \in 1 .. Len(<<2>>) : f[i] \in 0 .. Modulus[<<2>>[i]] - 1
        /\ VisibleName(SubSeq(f, Len(<<2>>) + 1, Len(<<2>>) + NameMax)) \in Seq(Chars)
        /\ Len(VisibleName(SubSeq(f, Len(<<2>>) + 1, Len(<<2>>) + NameMax))) < NameMax
    BY <1>1, NamedFields, Zenon
  <1>3. f[1] \in Word /\ name \in Seq(Chars) /\ Len(name) < NameMax
    <2>1. Len(<<2>>) = 1 /\ 1 + 1 = 2
      OBVIOUS
    <2>. QED BY <1>2, <2>1 DEF Word
  <1>4. m = [type |-> "Hello", version |-> f[1], name |-> name]
    BY DEF Deserialize, Handshake, RoundControl, ReadHandshake
  <1> HIDE DEF m, name
  <1>5. ShortName(name) = name
    BY <1>3, NameKept
  <1>6. Shortened(m) = m
    BY <1>4, <1>5 DEF Shortened, ShortName
  <1>7. m \in HelloMsgs
    BY <1>3, <1>4 DEF HelloMsgs
  <1>. QED BY <1>4, <1>6, <1>7 DEF m

\* A MatchResult comes with the name that fits it.
LEMMA MatchResultTrips == \A m \in DrawMsgs \union WonMsgs : Trips(m)
  <1> SUFFICES ASSUME NEW m \in DrawMsgs \union WonMsgs PROVE Trips(m)
    OBVIOUS
  <1>1. /\ m.type = "MatchResult" /\ m.matchId \in Long \ {0} /\ m.name \in Seq(Chars) /\ m.result \in {0, 1}
        /\ m.result = 0 => m.winner = NoWinner /\ m.name = <<>>
        /\ m.result = 1 => m.winner \in PlayerIds /\ m.name # <<>>
        /\ m = [type |-> "MatchResult", matchId |-> m.matchId, result |-> m.result, winner |-> m.winner,
                name |-> m.name]
    <2>1. CASE m \in DrawMsgs
      <3>1. <<>> \in Seq(Chars)
        OBVIOUS
      <3>2. /\ m.type = "MatchResult" /\ m.matchId \in Long \ {0} /\ m.result = 0 /\ m.winner = NoWinner
            /\ m.name = <<>>
            /\ m = [type |-> "MatchResult", matchId |-> m.matchId, result |-> m.result, winner |-> m.winner,
                    name |-> m.name]
        BY <2>1 DEF DrawMsgs
      <3>3. m.result # 1 /\ m.result \in {0, 1} /\ m.name \in Seq(Chars)
        BY <3>1, <3>2
      <3>. QED BY <3>2, <3>3, Zenon
    <2>2. CASE m \in WonMsgs
      BY <2>2 DEF WonMsgs
    <2>. QED BY <2>1, <2>2
  <1> DEFINE h == <<m.matchId, m.result, m.winner>>
             widths == <<4, 1, 1>>
             f == Serialize(m)
  <1>2. Values(m) = h \o FieldName(m.name)
    BY <1>1 DEF Values, Handshake, RoundControl, WriteRoundControl
  <1>3. m.type \in MsgTypes /\ Layout(m.type) = widths \o Name /\ widths \in Seq(Int)
    BY <1>1, NamedLayouts, HeadWidths DEF MsgTypes, ControlMsgs, RoundControl
  <1>4. m.result \in Byte /\ m.winner \in Byte /\ m.matchId \in Long
    BY <1>1, Fits
  <1>5. /\ h \in Seq(Int) /\ Len(h) = Len(widths) /\ Len(h) = 3 /\ h[1] = m.matchId /\ h[2] = m.result
        /\ h[3] = m.winner /\ widths[1] = 4 /\ widths[2] = 1 /\ widths[3] = 1
    BY <1>4, Fits
  <1> HIDE DEF h, f, widths
  <1>6. /\ FieldsOf(f, Layout(m.type)) /\ \A i \in 1 .. Len(h) : f[i] = h[i] % Modulus[widths[i]]
        /\ VisibleName(SubSeq(f, Len(h) + 1, Len(h) + NameMax)) = ShortName(m.name)
    BY <1>1, <1>2, <1>3, <1>5, NamedWritten, Zenon DEF f
  <1>7. f[1] = m.matchId /\ f[2] = m.result /\ f[3] = m.winner
    BY <1>4, <1>5, <1>6, KeptIn
  <1>8. VisibleName(SubSeq(f, 4, 3 + NameMax)) = ShortName(m.name)
    BY <1>5, <1>6
  <1> DEFINE short == [type |-> "MatchResult", matchId |-> m.matchId, result |-> m.result, winner |-> m.winner,
                       name |-> ShortName(m.name)]
  <1>9. Deserialize(m.type, f) = short
    <2>1. Deserialize(m.type, f) = ReadMatchResult(f)
      BY <1>1 DEF Deserialize, Handshake, RoundControl, ReadRoundControl
    <2>2. CASE m.result = 0
      <3>1. ShortName(m.name) = <<>>
        BY <1>1, <2>2, NameKept, Sizes
      <3>. QED BY <1>1, <1>7, <2>1, <2>2, <3>1 DEF ReadMatchResult, OrReject
    <2>3. CASE m.result = 1
      <3>1. ShortName(m.name) # <<>> /\ IsPlayerId(m.winner)
        BY <1>1, <2>3, NameKept, Sizes, SMTT(40) DEF IsPlayerId, PlayerIds
      <3>. QED BY <1>1, <1>7, <1>8, <2>1, <2>3, <3>1 DEF ReadMatchResult, OrReject
    <2>. QED BY <1>1, <2>2, <2>3
  <1>10. Shortened(m) = short
    BY <1>1 DEF Shortened, ShortName
  <1>. QED BY <1>6, <1>9, <1>10 DEF Trips, f

\* And any that is read has a winner with a name, or neither.
LEMMA MatchResultReads == Reads("MatchResult", DrawMsgs \union WonMsgs)
  <1> DEFINE kind == DrawMsgs \union WonMsgs
  <1> SUFFICES ASSUME NEW f, FieldsOf(f, Layout("MatchResult")), Deserialize("MatchResult", f) # Rejected
               PROVE  LET m == Deserialize("MatchResult", f)
                      IN  m \in kind /\ m.type = "MatchResult" /\ Shortened(m) = m
    BY ReadsIf, Zenon
  <1> DEFINE m == Deserialize("MatchResult", f)
             widths == <<4, 1, 1>>
             name == VisibleName(SubSeq(f, 4, 3 + NameMax))
  <1>1. FieldsOf(f, widths \o Name) /\ widths \in Seq(Int)
    BY NamedLayouts, HeadWidths, Zenon
  <1>2. Len(widths) = 3 /\ widths[1] = 4 /\ widths[2] = 1 /\ widths[3] = 1
    OBVIOUS
  <1> HIDE DEF widths
  <1>3. /\ \A i \in 1 .. Len(widths) : f[i] \in 0 .. Modulus[widths[i]] - 1
        /\ VisibleName(SubSeq(f, Len(widths) + 1, Len(widths) + NameMax)) \in Seq(Chars)
        /\ Len(VisibleName(SubSeq(f, Len(widths) + 1, Len(widths) + NameMax))) < NameMax
    BY <1>1, NamedFields, Zenon
  <1>4. /\ f[1] \in Long /\ f[2] \in Byte /\ f[3] \in Byte /\ name \in Seq(Chars) /\ Len(name) < NameMax
    BY <1>2, <1>3 DEF Long, Byte
  <1>5. m = ReadMatchResult(f)
    BY DEF Deserialize, Handshake, RoundControl, ReadRoundControl
  <1>6. name # <<>> => ShortName(name) = name
    BY <1>4, NameKept
  <1>7. CASE f[2] = 0
    <2>1. f[1] # 0 /\ m = [type |-> "MatchResult", matchId |-> f[1], result |-> 0, winner |-> NoWinner,
                           name |-> <<>>]
      BY <1>5, <1>7 DEF ReadMatchResult, OrReject
    <2> HIDE DEF m, name
    <2>2. m \in kind
      BY <1>4, <2>1 DEF DrawMsgs
    <2>3. <<>> \in Seq(Chars) /\ Len(<<>>) < NameMax
      BY Sizes
    <2>4. ShortName(<<>>) = <<>>
      BY <2>3, NameKept
    <2>5. Shortened(m) = m
      BY <2>1, <2>4 DEF Shortened, ShortName
    <2>. QED BY <2>1, <2>2, <2>5 DEF m
  <1>8. CASE f[2] = 1
    <2>1. /\ f[1] # 0 /\ IsPlayerId(f[3]) /\ name # <<>>
          /\ m = [type |-> "MatchResult", matchId |-> f[1], result |-> 1, winner |-> f[3], name |-> name]
      BY <1>5, <1>8 DEF ReadMatchResult, OrReject
    <2> HIDE DEF m, name
    <2>2. f[3] \in PlayerIds
      <3>1. f[3] \in Nat /\ f[3] < MaxPlayers
        BY <1>4, <2>1 DEF IsPlayerId, Byte
      <3>. QED BY <3>1, Sizes DEF PlayerIds
    <2>3. m \in kind
      BY <1>4, <2>1, <2>2 DEF WonMsgs
    <2>4. Shortened(m) = m
      BY <1>6, <2>1 DEF Shortened, ShortName
    <2>. QED BY <2>1, <2>3, <2>4 DEF m
  <1>9. f[2] \in {0, 1}
    BY <1>5 DEF ReadMatchResult
  <1>. QED BY <1>7, <1>8, <1>9

-----------------------------------------------------------------------------
(* Input batches. *)

\* A batch comes as it was sent.
LEMMA InputTrips == \A m \in InputMsgs : Trips(m)
  <1> SUFFICES ASSUME NEW m \in InputMsgs PROVE Trips(m)
    OBVIOUS
  <1> DEFINE n == Len(m.inputs)
             h == <<m.base, n>>
             z == Zeros(MaxBatch - n)
             r == Repeat(MaxBatch, <<1>>)
             v == Values(m)
             w == Layout(m.type)
             f == Serialize(m)
  <1>1. /\ m.type = "Input" /\ m.base \in Long \ {0} /\ m.inputs \in Seq(InputMasks) /\ n \in 1 .. MaxBatch
        /\ m = [type |-> "Input", base |-> m.base, inputs |-> m.inputs]
    BY DEF InputMsgs
  <1>2. v = h \o m.inputs \o z
    BY <1>1 DEF Values, Handshake, RoundControl
  <1>3. m.type \in MsgTypes /\ w = <<4, 1>> \o r /\ <<4, 1>> \in Seq(Int)
    BY <1>1, InputLayout, HeadWidths DEF MsgTypes
  <1>4. n \in Nat /\ n \in Byte /\ m.base \in Int /\ m.base \in Long /\ MaxBatch \in Nat /\ MaxBatch - n \in Nat
    <2>1. m.base \in Int /\ m.base \in Long
      BY <1>1, Fits
    <2>2. n \in 1 .. MaxBatch
      BY <1>1
    <2> HIDE DEF n
    <2>. QED BY <2>1, <2>2, Sizes DEF Byte
  <1>5. h \in Seq(Int) /\ Len(h) = 2 /\ h[1] = m.base /\ h[2] = n
    BY <1>4
  <1>6. m.inputs \in Seq(Int) /\ \A i \in 1 .. n : m.inputs[i] \in Byte /\ m.inputs[i] \in InputMasks
    <2>1. \A i \in 1 .. n : m.inputs[i] \in InputMasks
      BY <1>1
    <2>2. InputMasks \subseteq Byte /\ InputMasks \subseteq Int
      BY Fits DEF InputMasks
    <2>. QED BY <1>1, <2>1, <2>2
  <1>7. z \in Seq(Int) /\ Len(z) = MaxBatch - n
    <2>1. z \in Seq({0}) /\ Len(z) = MaxBatch - n
      <3>1. 0 \in Int
        OBVIOUS
      <3>. QED BY <1>4, <3>1, Repeated, Zenon DEF Zeros
    <2> HIDE DEF z
    <2>. QED BY <2>1
  <1>8. r \in Seq(Int) /\ Len(r) = MaxBatch /\ \A k \in 1 .. MaxBatch : r[k] = 1
    BY InputLayout, Zenon
  <1> DEFINE u == h \o m.inputs
  <1> HIDE DEF n, h, z, r, v, w, f, u
  <1>9. Joined(h, m.inputs, u)
    BY <1>5, <1>6, Concatenated, Zenon DEF u
  <1>10. Joined(u, z, v)
    <2>1. u \in Seq(Int) /\ v = u \o z
      BY <1>2, <1>9, Zenon DEF Joined, u
    <2>. QED BY <1>7, <2>1, Concatenated, Zenon
  <1>11. Joined(<<4, 1>>, r, w)
    BY <1>3, <1>8, Concatenated, Zenon
  <1>12. v \in Seq(Int) /\ Len(u) = 2 + n /\ Len(v) = 2 + MaxBatch /\ Len(w) = 2 + MaxBatch /\ Len(<<4, 1>>) = 2
    <2>1. Len(u) = 2 + n
      BY <1>5, <1>9 DEF Joined, n
    <2>2. v \in Seq(Int) /\ Len(v) = Len(u) + Len(z)
      BY <1>10, Zenon DEF Joined
    <2>3. Len(w) = Len(<<4, 1>>) + Len(r)
      BY <1>11, Zenon DEF Joined
    <2>4. Len(<<4, 1>>) = 2
      OBVIOUS
    <2>. QED BY <1>4, <1>7, <1>8, <2>1, <2>2, <2>3, <2>4
  <1>13. FieldsOf(f, w) /\ \A i \in 1 .. Len(v) : f[i] = v[i] % Modulus[w[i]]
    <2>1. Len(v) = Len(w)
      BY <1>12
    <2>. QED BY <1>3, <1>12, <2>1, Written, Zenon DEF f, v, w
  <1>14. f[1] = m.base /\ f[2] = n
    <2>1. 1 \in 1 .. Len(v) /\ 2 \in 1 .. Len(v) /\ 1 \in 1 .. Len(u) /\ 2 \in 1 .. Len(u) /\ 1 \in 1 .. 2 /\ 2 \in 1 .. 2
      BY <1>4, <1>12
    <2>2. v[1] = m.base /\ v[2] = n
      <3>1. v[1] = u[1] /\ v[2] = u[2]
        BY <1>10, <2>1, Zenon DEF Joined
      <3>2. u[1] = h[1] /\ u[2] = h[2]
        BY <1>5, <1>9, <2>1 DEF Joined
      <3>. QED BY <1>5, <3>1, <3>2, Zenon
    <2>3. w[1] = 4 /\ w[2] = 1
      <3>1. w[1] = <<4, 1>>[1] /\ w[2] = <<4, 1>>[2]
        BY <1>11, <1>12, <2>1 DEF Joined
      <3>. QED BY <3>1
    <2>. QED BY <1>4, <1>13, <2>1, <2>2, <2>3, KeptIn
  <1>15. ASSUME NEW i \in 1 .. n PROVE f[2 + i] = m.inputs[i]
    <2>1. 2 + i \in 1 .. Len(v) /\ 2 + i \in 1 .. Len(u) /\ i \in 1 .. MaxBatch
      BY <1>4, <1>12
    <2>2. v[2 + i] = u[2 + i]
      BY <1>10, <2>1, Zenon DEF Joined
    <2>3. u[Len(h) + i] = m.inputs[i]
      BY <1>9, Zenon DEF Joined, n
    <2>4. w[Len(<<4, 1>>) + i] = r[i]
      BY <1>8, <1>11, <2>1, Zenon DEF Joined
    <2>5. v[2 + i] = m.inputs[i] /\ w[2 + i] = 1
      BY <1>5, <1>8, <1>12, <2>1, <2>2, <2>3, <2>4, Zenon
    <2>6. m.inputs[i] % Modulus[1] = m.inputs[i]
      BY <1>6, KeptIn, Zenon
    <2>7. f[2 + i] = v[2 + i] % Modulus[w[2 + i]]
      BY <1>13, <2>1, Zenon
    <2>. QED BY <2>5, <2>6, <2>7, Zenon
  <1> DEFINE batch == SubSeq(f, 3, 2 + n)
  <1>16. batch = m.inputs
    <2>1. f \in Seq(Int) /\ Len(f) = 2 + MaxBatch
      BY <1>12, <1>13, Zenon DEF FieldsOf
    <2> DEFINE a == 3
               b == 2 + n
    <2>2. a \in Nat \ {0} /\ (a - 1) + n <= Len(f) /\ b = (a - 1) + n /\ a - 1 = 2
      BY <1>1, <1>4, <2>1
    <2> HIDE DEF a, b
    <2>3. batch \in Seq(Int) /\ Len(batch) = n /\ \A i \in 1 .. n : batch[i] = f[(a - 1) + i]
      <3>1. /\ SubSeq(f, a, b) \in Seq(Int) /\ Len(SubSeq(f, a, b)) = n
            /\ \A i \in 1 .. n : SubSeq(f, a, b)[i] = f[(a - 1) + i]
        BY <1>4, <2>1, <2>2, PartOf
      <3>. QED BY <3>1, Zenon DEF a, b
    <2> HIDE DEF batch
    <2>4. \A i \in 1 .. n : batch[i] = m.inputs[i]
      BY <1>15, <2>2, <2>3, Zenon
    <2>5. Len(m.inputs) = n
      BY Zenon DEF n
    <2> DEFINE inputs == m.inputs
    <2>6. inputs \in Seq(Int) /\ Len(inputs) = n /\ \A i \in 1 .. n : batch[i] = inputs[i]
      BY <1>6, <2>4, <2>5, Zenon
    <2> HIDE DEF inputs
    <2>7. batch = inputs
      BY <2>3, <2>6, SameSeq
    <2>. QED BY <2>7 DEF inputs
  <1>17. Deserialize(m.type, f) = m
    <2>1. Deserialize(m.type, f) = ReadInput(f)
      BY <1>1 DEF Deserialize, Handshake, RoundControl
    <2>2. f[2] \in 1 .. MaxBatch /\ f[1] >= 1 /\ \A i \in DOMAIN m.inputs : m.inputs[i] \in InputMasks
      BY <1>1, <1>14 DEF Long, n
    <2>. QED BY <1>1, <1>14, <1>16, <2>1, <2>2 DEF ReadInput, OrReject
  <1>18. Shortened(m) = m
    BY <1>1 DEF Shortened
  <1>. QED BY <1>13, <1>17, <1>18 DEF Trips, f, w

\* And one that is read has inputs, as many as a packet holds.
LEMMA InputReads == Reads("Input", InputMsgs)
  <1> SUFFICES ASSUME NEW f, FieldsOf(f, Layout("Input")), Deserialize("Input", f) # Rejected
               PROVE  LET m == Deserialize("Input", f) IN m \in InputMsgs /\ m.type = "Input" /\ Shortened(m) = m
    BY ReadsIf, Zenon
  <1> DEFINE m == Deserialize("Input", f)
             r == Repeat(MaxBatch, <<1>>)
             w == Layout("Input")
             batch == SubSeq(f, 3, 2 + f[2])
  <1>1. w = <<4, 1>> \o r /\ r \in Seq(Int) /\ Len(r) = MaxBatch /\ <<4, 1>> \in Seq(Int) /\ MaxBatch \in Nat
    BY InputLayout, HeadWidths, Sizes, Zenon
  <1> HIDE DEF r, w
  <1>2. Joined(<<4, 1>>, r, w)
    BY <1>1, Concatenated, Zenon
  <1>3. Len(<<4, 1>>) = 2 /\ <<4, 1>>[1] = 4 /\ 1 \in 1 .. 2
    OBVIOUS
  <1>4. Len(w) = 2 + MaxBatch /\ w[1] = 4
    BY <1>1, <1>2, <1>3, Zenon DEF Joined
  <1>5. f \in Seq(Int) /\ Len(f) = 2 + MaxBatch /\ \A i \in 1 .. Len(w) : f[i] \in 0 .. Modulus[w[i]] - 1
    BY <1>4, Zenon DEF FieldsOf, w
  <1>6. f[1] \in Long
    <2>1. 1 \in 1 .. Len(w)
      BY <1>1, <1>4
    <2>. QED BY <1>4, <1>5, <2>1, Zenon DEF Long
  <1>7. m = ReadInput(f)
    BY DEF Deserialize, Handshake, RoundControl
  <1>8. /\ f[2] \in 1 .. MaxBatch /\ f[1] >= 1 /\ \A i \in DOMAIN batch : batch[i] \in InputMasks
        /\ m = [type |-> "Input", base |-> f[1], inputs |-> batch]
    BY <1>7 DEF ReadInput, OrReject
  <1>9. batch \in Seq(Int) /\ Len(batch) = f[2]
    <2> DEFINE n == f[2]
               z == 2 + f[2]
    <2>1. n \in Nat /\ 3 \in Nat \ {0} /\ (3 - 1) + n <= Len(f) /\ z = (3 - 1) + n
      BY <1>1, <1>5, <1>8
    <2> HIDE DEF n, z
    <2>2. SubSeq(f, 3, z) \in Seq(Int) /\ Len(SubSeq(f, 3, z)) = n
      BY <1>5, <2>1, PartOf
    <2>. QED BY <2>2 DEF n, z
  <1> HIDE DEF m, batch
  <1>10. batch \in Seq(InputMasks)
    BY <1>8, <1>9
  <1>11. m \in InputMsgs
    <2>1. f[1] \in Long \ {0}
      BY <1>6, <1>8 DEF Long
    <2>. QED BY <1>8, <1>9, <1>10, <2>1 DEF InputMsgs
  <1>12. Shortened(m) = m
    BY <1>8 DEF Shortened
  <1>. QED BY <1>8, <1>11, <1>12 DEF m

-----------------------------------------------------------------------------
(* Tables that are written and read. *)

\* The first rows of a table, each with its fields cut to their widths.
CutFirst(rows, shape, l, w) == [i \in 1 .. l |-> [k \in 1 .. w |-> rows[i][k] % Modulus[shape[k]]]]

\* Of rows that are written, those that are read are they, cut to their widths.
LEMMA RowsWritten ==
  ASSUME NEW n \in Nat, NEW w \in Nat, NEW at \in Nat \ {0}, NEW values \in Seq(Int), NEW widths, NEW f,
         NEW rows, NEW shape, Room(values, at, n, w),
         Holds(values, at, rows, n, w), Holds(widths, at, Same(shape, n), n, w), CutBy(f, values, widths),
         NEW l \in 0 .. n
  PROVE  Entries(f, at, l, w) = CutFirst(rows, shape, l, w)
  <1> DEFINE shapes == Same(shape, n)
             cut == CutRows(rows, shapes, n, w)
  <1>1. Holds(f, at, cut, n, w)
    BY CutHeld, Zenon
  <1>2. at \in Nat
    OBVIOUS
  <1> HIDE DEF cut
  <1>3. Entries(f, at, l, w) = [i \in 1 .. l |-> [k \in 1 .. w |-> cut[i][k]]]
    <2>1. Entries(f, at, l, w) = FirstRows(cut, l, w)
      BY <1>1, <1>2, EntriesHeld
    <2>. QED BY <2>1, Zenon DEF FirstRows
  <1>4. ASSUME NEW i \in 1 .. l, NEW k \in 1 .. w PROVE cut[i][k] = rows[i][k] % Modulus[shape[k]]
    <2>1. i \in 1 .. n
      OBVIOUS
    <2>2. shapes[i] = shape
      BY <2>1, Zenon DEF Same
    <2>. QED BY <2>1, <2>2, Zenon DEF cut, CutRows
  <1>. QED BY <1>3, <1>4, ZenonT(40) DEF CutFirst

\* Of any rows, those that are read are numbers of their widths.
LEMMA RowsRead ==
  ASSUME NEW n \in Nat, NEW w \in Nat, NEW at \in Nat \ {0}, NEW widths \in Seq({1, 2, 4}), NEW f, NEW shape,
         FieldsOf(f, widths), Room(widths, at, n, w), Holds(widths, at, Same(shape, n), n, w),
         NEW l \in 0 .. n
  PROVE  /\ Entries(f, at, l, w) = [i \in 1 .. l |-> [k \in 1 .. w |-> Entries(f, at, l, w)[i][k]]]
         /\ \A i \in 1 .. l : \A k \in 1 .. w : Entries(f, at, l, w)[i][k] \in 0 .. Modulus[shape[k]] - 1
  <1> DEFINE e == Entries(f, at, l, w)
             all == Entries(f, at, n, w)
             shapes == Same(shape, n)
  <1>1. /\ \A i \in 1 .. n : \A k \in 1 .. w : f[(at - 1) + Place(i, k, w)] \in 0 .. Modulus[shapes[i][k]] - 1
        /\ Holds(f, at, all, n, w)
    BY FieldsHeld, Zenon
  <1>2. at \in Nat
    OBVIOUS
  <1>3. e = [i \in 1 .. l |-> [k \in 1 .. w |-> all[i][k]]]
    <2> HIDE DEF all
    <2>1. e = FirstRows(all, l, w)
      BY <1>1, <1>2, EntriesHeld
    <2>. QED BY <2>1, Zenon DEF FirstRows
  <1> HIDE DEF e, all
  <1>4. ASSUME NEW i \in 1 .. l, NEW k \in 1 .. w PROVE e[i][k] = all[i][k] /\ e[i][k] \in 0 .. Modulus[shape[k]] - 1
    <2>1. i \in 1 .. n
      OBVIOUS
    <2>2. shapes[i] = shape
      BY <2>1, Zenon DEF Same
    <2>3. f[(at - 1) + Place(i, k, w)] = all[i][k]
      BY <1>1, <2>1, Zenon DEF Holds
    <2>4. e[i][k] = all[i][k]
      BY <1>3, Zenon
    <2>5. f[(at - 1) + Place(i, k, w)] \in 0 .. Modulus[shapes[i][k]] - 1
      BY <1>1, <2>1, Zenon
    <2>. QED BY <2>2, <2>3, <2>4, <2>5, Zenon
  <1>5. e = [i \in 1 .. l |-> [k \in 1 .. w |-> e[i][k]]]
    BY <1>3, <1>4, Zenon
  <1>. QED BY <1>4, <1>5, Zenon DEF e

-----------------------------------------------------------------------------
(* The lobby. *)

\* The fields of a seat.
SeatRow(seat) == <<seat.flags, seat.wins>> \o FieldName(seat.name)

\* Seats that can be sent have flags, wins and a name that fit.
LEMMA SeatParts ==
  ASSUME NEW seat \in SeatValues
  PROVE  /\ seat.flags \in Byte /\ seat.wins \in Byte /\ seat.name \in Seq(Chars)
         /\ seat.flags \in {0} \union Occupied
         /\ seat = [flags |-> seat.flags, wins |-> seat.wins, name |-> seat.name]
         /\ seat.flags \notin Occupied => seat = EmptySeat
  <1>1. 0 \in Byte /\ 0 \notin Occupied /\ Occupied \subseteq Byte
    BY Fits DEF Occupied
  <1>2. CASE seat = EmptySeat
    <2>1. <<>> \in Seq(Chars)
      OBVIOUS
    <2>. QED BY <1>1, <1>2, <2>1 DEF EmptySeat
  <1>3. CASE seat \in [flags : Occupied, wins : Byte, name : Seq(Chars)]
    BY <1>1, <1>3
  <1>. QED BY <1>2, <1>3 DEF SeatValues

\* The fields of one are bytes.
LEMMA SeatWritten ==
  ASSUME NEW seat \in SeatValues
  PROVE  /\ SeatRow(seat) \in Seq(Int) /\ Len(SeatRow(seat)) = 2 + NameMax
         /\ \A k \in 1 .. 2 + NameMax : SeatRow(seat)[k] \in Byte
         /\ SeatRow(seat)[1] = seat.flags /\ SeatRow(seat)[2] = seat.wins
         /\ \A k \in 1 .. NameMax : SeatRow(seat)[2 + k] = FieldName(seat.name)[k]
  <1> DEFINE h == <<seat.flags, seat.wins>>
             n == FieldName(seat.name)
             t == SeatRow(seat)
  <1>1. seat.flags \in Byte /\ seat.wins \in Byte /\ seat.name \in Seq(Chars) /\ Byte \subseteq Int
    BY SeatParts, Fits
  <1>2. h \in Seq(Int) /\ Len(h) = 2 /\ h[1] = seat.flags /\ h[2] = seat.wins
    <2>1. seat.flags \in Int /\ seat.wins \in Int
      BY <1>1, Zenon
    <2>2. h = <<seat.flags, seat.wins>>
      OBVIOUS
    <2> HIDE DEF h
    <2>. QED BY ONLY <2>1, <2>2
  <1>3. n \in Seq(Int) /\ Len(n) = NameMax /\ NameMax \in Nat /\ \A k \in 1 .. NameMax : n[k] \in Byte
    BY <1>1, NameWritten, Sizes
  <1>4. t = h \o n
    BY DEF SeatRow
  <1> HIDE DEF h, n, t
  <1>5. Joined(h, n, t)
    BY <1>2, <1>3, <1>4, Concatenated, Zenon
  <1>6. t \in Seq(Int) /\ Len(t) = 2 + NameMax
    BY <1>2, <1>3, <1>5, Zenon DEF Joined
  <1>7. t[1] = h[1] /\ t[2] = h[2]
    BY <1>2, <1>5 DEF Joined
  <1>8. \A k \in 1 .. NameMax : t[2 + k] = n[k]
    BY <1>2, <1>3, <1>5, Zenon DEF Joined
  <1>9. ASSUME NEW k \in 1 .. 2 + NameMax PROVE t[k] \in Byte
    <2>1. CASE k \in {1, 2}
      BY <1>1, <1>2, <1>7, <2>1
    <2>2. CASE k \notin {1, 2}
      <3>1. k - 2 \in 1 .. NameMax /\ 2 + (k - 2) = k
        BY <1>3, <2>2
      <3>2. t[2 + (k - 2)] \in Byte
        BY <1>3, <1>8, <3>1, Zenon
      <3>. QED BY <3>1, <3>2
    <2>. QED BY <2>1, <2>2
  <1>. QED BY <1>2, <1>6, <1>7, <1>8, <1>9, Zenon DEF t, n

\* A seat as it is read from its fields has the name that fits.
ShortSeat(seat) == [seat EXCEPT !.name = ShortName(@)]

\* It is what ReadSeat makes of them.
LEMMA SeatRead ==
  ASSUME NEW seat \in SeatValues, NEW e, e = [k \in 1 .. 2 + NameMax |-> SeatRow(seat)[k]]
  PROVE  ReadSeat(e) = ShortSeat(seat) /\ e[1] \in {0} \union Occupied
  <1> DEFINE name == seat.name
             part == SubSeq(e, 3, 2 + NameMax)
  <1>1. /\ name \in Seq(Chars) /\ seat.flags \in {0} \union Occupied
        /\ seat = [flags |-> seat.flags, wins |-> seat.wins, name |-> name]
        /\ seat.flags \notin Occupied => seat = EmptySeat
    BY SeatParts, Zenon
  <1>2. NameMax \in Nat /\ NameMax > 1 /\ 2 + NameMax \in Nat
    BY Sizes
  <1>3. e \in Seq(Int) /\ Len(e) = 2 + NameMax
    <2>1. \A k \in 1 .. 2 + NameMax : SeatRow(seat)[k] \in Int
      BY SeatWritten, Fits
    <2>2. e \in [1 .. 2 + NameMax -> Int]
      BY <2>1
    <2>. QED BY <1>2, <2>2, FunctionIsSeq, Zenon
  <1>4. e[1] = seat.flags /\ e[2] = seat.wins /\ \A k \in 1 .. NameMax : e[2 + k] = FieldName(name)[k]
    <2>1. 1 \in 1 .. 2 + NameMax /\ 2 \in 1 .. 2 + NameMax /\ \A k \in 1 .. NameMax : 2 + k \in 1 .. 2 + NameMax
      BY <1>2
    <2>2. \A k \in 1 .. 2 + NameMax : e[k] = SeatRow(seat)[k]
      OBVIOUS
    <2>. QED BY <2>1, <2>2, SeatWritten, Zenon
  <1>5. part \in Seq(Int) /\ Len(part) = NameMax /\ \A k \in 1 .. NameMax : part[k] = e[2 + k]
    <2> DEFINE a == 3
               z == 2 + NameMax
    <2>1. a \in Nat \ {0} /\ (a - 1) + NameMax <= Len(e) /\ z = (a - 1) + NameMax /\ a - 1 = 2
      BY <1>2, <1>3
    <2> HIDE DEF a, z
    <2>2. /\ SubSeq(e, a, z) \in Seq(Int) /\ Len(SubSeq(e, a, z)) = NameMax
          /\ \A k \in 1 .. NameMax : SubSeq(e, a, z)[k] = e[(a - 1) + k]
      BY <1>2, <1>3, <2>1, PartOf
    <2>. QED BY <2>1, <2>2, Zenon DEF a, z
  <1> HIDE DEF part
  <1>6. VisibleName(part) = ShortName(name)
    <2>1. Len(part) >= NameMax /\ \A k \in 1 .. NameMax : part[k] = FieldName(name)[k]
      BY <1>2, <1>4, <1>5, SMTT(40)
    <2>. QED BY <1>1, <1>5, <2>1, NameRead, Zenon
  <1>7. ReadSeat(e) = IF seat.flags \in Occupied
                      THEN [flags |-> seat.flags, wins |-> seat.wins, name |-> ShortName(name)] ELSE EmptySeat
    BY <1>4, <1>6 DEF ReadSeat, part
  <1>8. CASE seat.flags \in Occupied
    <2>1. ShortSeat(seat) = [flags |-> seat.flags, wins |-> seat.wins, name |-> ShortName(name)]
      BY <1>1 DEF ShortSeat
    <2>. QED BY <1>1, <1>4, <1>7, <1>8, <2>1, Zenon
  <1>9. CASE seat.flags \notin Occupied
    <2>1. <<>> \in Seq(Chars) /\ Len(<<>>) < NameMax
      BY <1>2
    <2>2. ShortName(<<>>) = <<>>
      BY <2>1, NameKept
    <2>3. ShortSeat(EmptySeat) = EmptySeat
      BY <2>2 DEF ShortSeat, EmptySeat
    <2>. QED BY <1>1, <1>4, <1>7, <1>9, <2>3, Zenon
  <1>. QED BY <1>8, <1>9

\* And one of any fields is a seat with a name that fits.
LEMMA SeatSound ==
  ASSUME NEW e, e = [k \in 1 .. 2 + NameMax |-> e[k]], \A k \in 1 .. 2 + NameMax : e[k] \in Byte,
         e[1] \in {0} \union Occupied
  PROVE  ReadSeat(e) \in SeatValues /\ ShortSeat(ReadSeat(e)) = ReadSeat(e)
  <1> DEFINE part == SubSeq(e, 3, 2 + NameMax)
             name == VisibleName(part)
  <1>1. NameMax \in Nat /\ NameMax > 1 /\ 2 + NameMax \in Nat
    BY Sizes, SMTT(40)
  <1>2. e \in Seq(Int) /\ Len(e) = 2 + NameMax
    <2>1. \A k \in 1 .. 2 + NameMax : e[k] \in Int
      BY Fits
    <2>2. e \in [1 .. 2 + NameMax -> Int]
      BY <2>1
    <2>. QED BY <1>1, <2>2, FunctionIsSeq, Zenon
  <1>3. part \in Seq(Int) /\ Len(part) = NameMax /\ \A k \in 1 .. NameMax : part[k] = e[2 + k]
    <2> DEFINE a == 3
               z == 2 + NameMax
    <2>1. a \in Nat \ {0} /\ (a - 1) + NameMax <= Len(e) /\ z = (a - 1) + NameMax /\ a - 1 = 2
      BY <1>1, <1>2
    <2> HIDE DEF a, z
    <2>2. /\ SubSeq(e, a, z) \in Seq(Int) /\ Len(SubSeq(e, a, z)) = NameMax
          /\ \A k \in 1 .. NameMax : SubSeq(e, a, z)[k] = e[(a - 1) + k]
      <3>1. NameMax \in Nat /\ e \in Seq(Int) /\ a \in Nat \ {0} /\ (a - 1) + NameMax <= Len(e) /\ z = (a - 1) + NameMax
        BY <1>1, <1>2, <2>1, Zenon
      <3>. QED BY ONLY <3>1, PartOf
    <2>. QED BY <2>1, <2>2, Zenon DEF a, z
  <1> HIDE DEF part
  <1>4. name \in Seq(Chars) /\ Len(name) < NameMax
    <2>1. \A k \in 1 .. NameMax : 2 + k \in 1 .. 2 + NameMax
      BY <1>1
    <2>2. \A k \in 1 .. NameMax : part[k] \in Byte
      BY <1>3, <2>1, Zenon
    <2>. QED BY <1>3, <2>2, NameSound, Zenon
  <1> HIDE DEF name
  <1>5. CASE e[1] \in Occupied
    <2>1. ReadSeat(e) = [flags |-> e[1], wins |-> e[2], name |-> name]
      BY <1>5 DEF ReadSeat, name, part
    <2>2. e[2] \in Byte
      BY <1>1
    <2>3. ShortName(name) = name
      BY <1>4, NameKept
    <2> DEFINE seat == [flags |-> e[1], wins |-> e[2], name |-> name]
    <2>4. seat \in [flags : Occupied, wins : Byte, name : Seq(Chars)] /\ ShortSeat(seat) = seat
      BY <1>4, <1>5, <2>2, <2>3 DEF ShortSeat
    <2>. QED BY <2>1, <2>4, Zenon DEF SeatValues
  <1>6. CASE e[1] \notin Occupied
    <2>1. <<>> \in Seq(Chars) /\ Len(<<>>) < NameMax
      BY <1>1
    <2>2. ShortName(<<>>) = <<>>
      BY <2>1, NameKept
    <2>3. ShortSeat(EmptySeat) = EmptySeat
      BY <2>2 DEF ShortSeat, EmptySeat
    <2>. QED BY <1>6, <2>3 DEF ReadSeat, SeatValues
  <1>. QED BY <1>5, <1>6

\* Each of the names is cut.
LEMMA LobbyShortened ==
  ASSUME NEW m, m.type = "LobbyState"
  PROVE  Shortened(m) = [m EXCEPT !.seats = [i \in DOMAIN m.seats |-> ShortSeat(m.seats[i])]]
  BY DEF Shortened, ShortSeat, ShortName

\* A LobbyState comes with the names that fit.
LEMMA LobbyTrips == \A m \in LobbyStateMsgs : Trips(m)
  <1> SUFFICES ASSUME NEW m \in LobbyStateMsgs PROVE Trips(m)
    OBVIOUS
  <1> DEFINE h == <<m.phase, m.seconds, 0>>
             widths == <<1, 1, 2>>
             rows == [i \in 1 .. MaxPlayers |-> SeatRow(m.seats[i])]
             v == Values(m)
             w == Layout(m.type)
             f == Serialize(m)
             W == 2 + NameMax
             seats == Entries(f, 4, MaxPlayers, W)
             short == [type |-> "LobbyState", phase |-> m.phase, seconds |-> m.seconds,
                       seats |-> [i \in 1 .. MaxPlayers |-> ShortSeat(m.seats[i])]]
  <1>1. /\ m.type = "LobbyState" /\ m.phase \in {Idle, Countdown} /\ m.seconds \in Byte
        /\ m.seats \in [1 .. MaxPlayers -> SeatValues] /\ (m.phase = Countdown) = (m.seconds > 0)
        /\ m = [type |-> "LobbyState", phase |-> m.phase, seconds |-> m.seconds, seats |-> m.seats]
    BY DEF LobbyStateMsgs
  <1>2. v = h \o FlattenSeq(rows)
    BY <1>1 DEF Values, Handshake, RoundControl, WriteLobbyState, SeatRow
  <1>3. m.type \in MsgTypes
    BY <1>1 DEF MsgTypes, ControlMsgs
  <1>4. MaxPlayers \in Nat /\ W \in Nat /\ MaxPlayers * W \in Nat
    <2>1. MaxPlayers \in Nat /\ W \in Nat
      BY Sizes
    <2>. QED BY <2>1, Product, Zenon
  <1>5. \A i \in 1 .. MaxPlayers : m.seats[i] \in SeatValues
    BY <1>1
  <1>6. rows \in Seq(Seq(Int)) /\ Len(rows) = MaxPlayers /\ \A i \in 1 .. MaxPlayers : Len(rows[i]) = W
    <2>1. \A i \in 1 .. MaxPlayers : SeatRow(m.seats[i]) \in Seq(Int) /\ Len(SeatRow(m.seats[i])) = W
      BY <1>5, SeatWritten, Zenon
    <2>2. rows \in [1 .. MaxPlayers -> Seq(Int)] /\ \A i \in 1 .. MaxPlayers : Len(rows[i]) = W
      BY <2>1, Zenon
    <2>. QED BY <1>4, <2>2, FunctionIsSeq, Zenon
  <1>7. h \in Seq(Int) /\ Len(h) = 3 /\ h[1] = m.phase /\ h[2] = m.seconds /\ h[3] = 0
    <2>1. m.phase \in Int /\ m.seconds \in Int
      BY <1>1, Fits DEF Idle, Countdown
    <2>2. h = <<m.phase, m.seconds, 0>>
      OBVIOUS
    <2> HIDE DEF h
    <2>. QED BY ONLY <2>1, <2>2
  <1>8. Len(widths) = 3 /\ widths[1] = 1 /\ widths[2] = 1 /\ widths[3] = 2
    OBVIOUS
  <1> HIDE DEF h, widths, rows, v, w, f, W, seats
  <1>9. Table(FlattenSeq(rows), rows, MaxPlayers, W)
    BY <1>4, <1>6, FlattenTable, Zenon
  <1>10. Extended(v, h, rows, MaxPlayers, W)
    <2>1. Extended(h \o FlattenSeq(rows), h, rows, MaxPlayers, W)
      BY <1>4, <1>7, <1>9, Appended, Zenon
    <2>. QED BY <1>2, <2>1, Zenon
  <1>11. Extended(w, widths, Same(Seat, MaxPlayers), MaxPlayers, W)
    BY <1>1, LobbyLayout DEF w, widths, W
  <1>12. /\ Begins(v, h) /\ Len(v) = 3 + MaxPlayers * W /\ Holds(v, 4, rows, MaxPlayers, W) /\ v \in Seq(Int)
         /\ Begins(w, widths) /\ Len(w) = 3 + MaxPlayers * W /\ Holds(w, 4, Same(Seat, MaxPlayers), MaxPlayers, W)
    <2>1. 3 + 1 = 4
      OBVIOUS
    <2>. QED BY <1>7, <1>8, <1>10, <1>11, <2>1, Zenon DEF Extended, Begins
  <1>13. FieldsOf(f, w) /\ CutBy(f, v, w)
    <2>1. Len(v) = Len(w)
      BY <1>12
    <2>. QED BY <1>3, <1>12, <2>1, Written, Zenon DEF CutBy, f, v, w
  <1>14. f[1] = m.phase /\ f[2] = m.seconds /\ f[3] = 0
    <2>1. 1 \in 1 .. Len(v) /\ 2 \in 1 .. Len(v) /\ 3 \in 1 .. Len(v)
      BY <1>4, <1>12
    <2>2. v[1] = m.phase /\ v[2] = m.seconds /\ v[3] = 0 /\ w[1] = 1 /\ w[2] = 1 /\ w[3] = 2
      BY <1>7, <1>8, <1>12 DEF Begins
    <2>3. m.phase \in Byte /\ m.seconds \in Byte /\ 0 \in Word
      <3>1. m.phase \in {0, 1}
        BY <1>1 DEF Idle, Countdown
      <3>2. 0 \in Word
        BY Sizes DEF Word
      <3>. QED BY <1>1, <3>1, <3>2, Fits
    <2>. QED BY <1>13, <2>1, <2>2, <2>3, KeptIn DEF CutBy
  <1>15. seats = [i \in 1 .. MaxPlayers |-> [k \in 1 .. W |-> rows[i][k] % Modulus[Seat[k]]]]
    <2>1. Room(v, 4, MaxPlayers, W) /\ 4 \in Nat \ {0} /\ MaxPlayers \in 0 .. MaxPlayers
      BY <1>4, <1>12 DEF Room
    <2>2. seats = CutFirst(rows, Seat, MaxPlayers, W)
      BY <1>4, <1>12, <1>13, <2>1, RowsWritten DEF seats
    <2>. QED BY <2>2, Zenon DEF CutFirst
  <1>16. ASSUME NEW i \in 1 .. MaxPlayers
         PROVE  ReadSeat(seats[i]) = ShortSeat(m.seats[i]) /\ seats[i][1] \in {0} \union Occupied
    <2>1. ASSUME NEW k \in 1 .. W PROVE rows[i][k] % Modulus[Seat[k]] = SeatRow(m.seats[i])[k]
      <3>1. rows[i] = SeatRow(m.seats[i])
        BY DEF rows
      <3>2. SeatRow(m.seats[i])[k] \in Byte
        BY <1>5, SeatWritten, Zenon DEF W
      <3>3. Seat[k] = 1
        BY NameWidths, Zenon DEF W
      <3>. QED BY <3>1, <3>2, <3>3, KeptIn, Zenon
    <2>2. seats[i] = [k \in 1 .. W |-> SeatRow(m.seats[i])[k]]
      BY <1>15, <2>1, Zenon
    <2>. QED BY <1>5, <2>2, SeatRead, Zenon DEF W
  <1>17. Deserialize(m.type, f) = short
    <2>1. Deserialize(m.type, f) = ReadLobbyState(f)
      BY <1>1 DEF Deserialize, Handshake, RoundControl
    <2>2. DOMAIN seats = 1 .. MaxPlayers
      BY <1>15
    <2>3. [i \in 1 .. MaxPlayers |-> ReadSeat(seats[i])] = [i \in 1 .. MaxPlayers |-> ShortSeat(m.seats[i])]
      BY <1>16, Zenon
    <2>4. \A i \in DOMAIN seats : seats[i][1] \in {0} \union Occupied
      BY <1>16, <2>2, Zenon
    <2>5. /\ m.phase = Countdown => m.seconds # 0
          /\ (IF m.phase = Countdown THEN m.seconds ELSE 0) = m.seconds
      BY <1>1, Fits
    <2>6. ReadLobbyState(f) = OrReject(
            /\ f[1] \in {Idle, Countdown} /\ f[3] = 0 /\ (f[1] = Countdown => f[2] # 0)
            /\ \A i \in DOMAIN seats : seats[i][1] \in {0} \union Occupied,
            [type |-> "LobbyState", phase |-> f[1], seconds |-> IF f[1] = Countdown THEN f[2] ELSE 0,
             seats |-> [i \in 1 .. MaxPlayers |-> ReadSeat(seats[i])]])
      BY Zenon DEF ReadLobbyState, seats, W
    <2>. QED BY <1>1, <1>14, <2>1, <2>3, <2>4, <2>5, <2>6 DEF OrReject
  <1>18. Shortened(m) = short
    <2>1. DOMAIN m.seats = 1 .. MaxPlayers
      BY <1>1
    <2>2. Shortened(m) = [m EXCEPT !.seats = [i \in DOMAIN m.seats |-> ShortSeat(m.seats[i])]]
      BY <1>1, LobbyShortened, Zenon
    <2>3. Shortened(m) = [m EXCEPT !.seats = [i \in 1 .. MaxPlayers |-> ShortSeat(m.seats[i])]]
      BY <2>1, <2>2, Zenon
    <2>. QED BY <1>1, <2>3
  <1>. QED BY <1>13, <1>17, <1>18 DEF Trips, f, w

\* And any that is read has such seats, and seconds when it counts down.
LEMMA LobbyReads == Reads("LobbyState", LobbyStateMsgs)
  <1> SUFFICES ASSUME NEW f, FieldsOf(f, Layout("LobbyState")), Deserialize("LobbyState", f) # Rejected
               PROVE  LET m == Deserialize("LobbyState", f)
                      IN  m \in LobbyStateMsgs /\ m.type = "LobbyState" /\ Shortened(m) = m
    BY ReadsIf, Zenon
  <1> DEFINE m == Deserialize("LobbyState", f)
             widths == <<1, 1, 2>>
             w == Layout("LobbyState")
             W == 2 + NameMax
             seats == Entries(f, 4, MaxPlayers, W)
             seconds == IF f[1] = Countdown THEN f[2] ELSE 0
             read == [i \in 1 .. MaxPlayers |-> ReadSeat(seats[i])]
  <1>1. MaxPlayers \in Nat /\ W \in Nat /\ MaxPlayers * W \in Nat
    <2>1. MaxPlayers \in Nat /\ W \in Nat
      BY Sizes
    <2>. QED BY <2>1, Product, Zenon
  <1>2. Len(widths) = 3 /\ widths[2] = 1
    OBVIOUS
  <1>3. w \in Seq({1, 2, 4}) /\ Extended(w, widths, Same(Seat, MaxPlayers), MaxPlayers, W)
    BY LobbyLayout, Zenon
  <1>4. m = ReadLobbyState(f)
    BY DEF Deserialize, Handshake, RoundControl
  <1>5. FieldsOf(f, w)
    OBVIOUS
  <1> HIDE DEF widths, w, W, seats
  <1>6. Begins(w, widths) /\ Len(w) = 3 + MaxPlayers * W /\ Holds(w, 4, Same(Seat, MaxPlayers), MaxPlayers, W)
    <2>1. 3 + 1 = 4
      OBVIOUS
    <2>. QED BY <1>2, <1>3, <2>1, Zenon DEF Extended
  <1>7. f[2] \in Byte
    <2>1. 2 \in 1 .. Len(w) /\ w[2] = 1
      BY <1>1, <1>2, <1>6 DEF Begins
    <2>. QED BY <1>5, <2>1 DEF FieldsOf, Byte
  <1>8. /\ seats = [i \in 1 .. MaxPlayers |-> [k \in 1 .. W |-> seats[i][k]]]
        /\ \A i \in 1 .. MaxPlayers : \A k \in 1 .. W : seats[i][k] \in Byte
    <2>1. Room(w, 4, MaxPlayers, W) /\ 4 \in Nat \ {0} /\ MaxPlayers \in 0 .. MaxPlayers
      BY <1>1, <1>6 DEF Room
    <2>2. /\ seats = [i \in 1 .. MaxPlayers |-> [k \in 1 .. W |-> seats[i][k]]]
          /\ \A i \in 1 .. MaxPlayers : \A k \in 1 .. W : seats[i][k] \in 0 .. Modulus[Seat[k]] - 1
      BY <1>1, <1>3, <1>5, <1>6, <2>1, RowsRead, Zenon DEF seats
    <2>3. \A k \in 1 .. W : Seat[k] = 1
      BY NameWidths, Zenon DEF W
    <2>4. ASSUME NEW i \in 1 .. MaxPlayers, NEW k \in 1 .. W PROVE seats[i][k] \in Byte
      BY <2>2, <2>3, Zenon DEF Byte
    <2>. QED BY <2>2, <2>4, Zenon
  <1>9. /\ f[1] \in {Idle, Countdown} /\ (f[1] = Countdown => f[2] # 0)
        /\ \A i \in DOMAIN seats : seats[i][1] \in {0} \union Occupied
        /\ m = [type |-> "LobbyState", phase |-> f[1], seconds |-> seconds, seats |-> read]
    <2>1. ReadLobbyState(f) = OrReject(
            /\ f[1] \in {Idle, Countdown} /\ f[3] = 0 /\ (f[1] = Countdown => f[2] # 0)
            /\ \A i \in DOMAIN seats : seats[i][1] \in {0} \union Occupied,
            [type |-> "LobbyState", phase |-> f[1], seconds |-> seconds, seats |-> read])
      BY Zenon DEF ReadLobbyState, seats, W
    <2> HIDE DEF read, seconds, m
    <2>2. m # Rejected
      BY DEF m
    <2>. QED BY <1>4, <2>1, <2>2, Zenon DEF OrReject
  <1>10. ASSUME NEW i \in 1 .. MaxPlayers
         PROVE  ReadSeat(seats[i]) \in SeatValues /\ ShortSeat(ReadSeat(seats[i])) = ReadSeat(seats[i])
    <2>1. DOMAIN seats = 1 .. MaxPlayers
      BY <1>8
    <2>2. seats[i][1] \in {0} \union Occupied
      BY <1>9, <2>1, Zenon
    <2>3. seats[i] = [k \in 1 .. W |-> seats[i][k]]
      BY <1>8, Zenon
    <2>. QED BY <1>8, <2>2, <2>3, SeatSound, Zenon DEF W
  <1>11. seconds \in Byte /\ (f[1] = Countdown) = (seconds > 0)
    BY <1>7, <1>9, Sizes, SMTT(40) DEF Byte, Idle, Countdown
  <1>12. read \in [1 .. MaxPlayers -> SeatValues] /\ \A i \in 1 .. MaxPlayers : ShortSeat(read[i]) = read[i]
    BY <1>10, Zenon
  <1> HIDE DEF m, seconds, read
  <1>13. m \in LobbyStateMsgs
    BY <1>9, <1>11, <1>12 DEF LobbyStateMsgs
  <1>14. m.type = "LobbyState"
    BY <1>9
  <1>15. Shortened(m) = m
    <2>1. DOMAIN read = 1 .. MaxPlayers /\ m.seats = read
      BY <1>9, <1>12
    <2>2. Shortened(m) = [m EXCEPT !.seats = [i \in DOMAIN m.seats |-> ShortSeat(m.seats[i])]]
      BY <1>14, LobbyShortened, Zenon
    <2>3. Shortened(m) = [m EXCEPT !.seats = [i \in 1 .. MaxPlayers |-> ShortSeat(read[i])]]
      BY <2>1, <2>2, Zenon
    <2>4. [i \in 1 .. MaxPlayers |-> ShortSeat(read[i])] = read
      BY <1>12
    <2>. QED BY <1>9, <2>3, <2>4
  <1>. QED BY <1>13, <1>14, <1>15, Zenon DEF m

-----------------------------------------------------------------------------
(* Lists of cells. *)

\* A pair is what its two parts are.
LEMMA PairOf == ASSUME NEW e, e = [k \in 1 .. 2 |-> e[k]] PROVE e = <<e[1], e[2]>>
  <1> DEFINE p == <<e[1], e[2]>>
  <1>1. p = [k \in 1 .. 2 |-> p[k]] /\ p[1] = e[1] /\ p[2] = e[2]
    OBVIOUS
  <1> HIDE DEF p
  <1>2. \A k \in 1 .. 2 : e[k] = p[k]
    BY <1>1
  <1>3. e = p
    BY <1>1, <1>2, Zenon
  <1>. QED BY <1>3 DEF p

\* Rows with nothing in them.
LEMMA ZerosAre ==
  ASSUME NEW n \in Nat \ {0}
  PROVE  Zeros(n) \in Seq(Int) /\ Len(Zeros(n)) = n /\ Len(Zeros(n)) # 0
  <1>1. Zeros(n) \in Seq({0}) /\ Len(Zeros(n)) = n
    BY Repeated DEF Zeros
  <1>. QED BY <1>1

\* Of a list that is written with room for more, the rows that are read are its own.
LEMMA PaddedWritten ==
  ASSUME NEW n \in Nat, NEW w \in Nat, NEW at \in Nat \ {0}, NEW values \in Seq(Int), NEW widths, NEW f,
         NEW entries \in Seq(Seq(Int)), Len(entries) <= n, NEW none, NEW shape, Room(values, at, n, w),
         Holds(values, at, PaddedRows(entries, n, none), n, w), Holds(widths, at, Same(shape, n), n, w),
         CutBy(f, values, widths)
  PROVE  Entries(f, at, Len(entries), w) = CutFirst(entries, shape, Len(entries), w)
  <1> DEFINE l == Len(entries)
             rows == PaddedRows(entries, n, none)
  <1>1. l \in 0 .. n /\ l \in Nat
    BY LenOfAny
  <1>2. \A i \in 1 .. l : rows[i] = entries[i]
    BY <1>1 DEF PaddedRows
  <1> HIDE DEF rows, l
  <1>3. Entries(f, at, l, w) = CutFirst(rows, shape, l, w)
    BY <1>1, RowsWritten DEF rows
  <1>4. CutFirst(rows, shape, l, w) = CutFirst(entries, shape, l, w)
    BY <1>2, Zenon DEF CutFirst
  <1>. QED BY <1>3, <1>4, Zenon DEF l

\* A list of cells is a list of rows of bytes.
LEMMA CellRows ==
  ASSUME NEW cells \in Seq(BoardCells)
  PROVE  /\ cells \in Seq(Seq(Int)) /\ \A i \in 1 .. Len(cells) : Len(cells[i]) = 2
         /\ \A i \in 1 .. Len(cells) : cells[i] \in BoardCells /\ cells[i] = [k \in 1 .. 2 |-> cells[i][k]]
         /\ \A i \in 1 .. Len(cells) : \A k \in 1 .. 2 : cells[i][k] \in Byte
  <1>1. ASSUME NEW c \in BoardCells
        PROVE  c \in Seq(Int) /\ Len(c) = 2 /\ c = [k \in 1 .. 2 |-> c[k]] /\ \A k \in 1 .. 2 : c[k] \in Byte
    <2>1. c[1] \in Byte /\ c[2] \in Byte /\ c = <<c[1], c[2]>>
      BY Fits
    <2>2. c[1] \in Int /\ c[2] \in Int
      BY <2>1, Fits
    <2>3. <<c[1], c[2]>> \in Seq(Int) /\ Len(<<c[1], c[2]>>) = 2
      BY <2>2
    <2>4. c \in Seq(Int) /\ Len(c) = 2
      BY <2>1, <2>3
    <2>5. c = [k \in 1 .. 2 |-> c[k]]
      BY <2>4
    <2>6. \A k \in 1 .. 2 : c[k] \in Byte
      BY <2>1
    <2>. QED BY <2>4, <2>5, <2>6, Zenon
  <1>2. \A i \in 1 .. Len(cells) : cells[i] \in BoardCells
    OBVIOUS
  <1>3. cells \in [1 .. Len(cells) -> BoardCells] /\ Len(cells) \in Nat
    OBVIOUS
  <1>4. cells \in [1 .. Len(cells) -> Seq(Int)]
    BY <1>1, <1>3
  <1>5. cells \in Seq(Seq(Int))
    BY <1>3, <1>4
  <1>. QED BY <1>1, <1>2, <1>5, Zenon

\* Cells that are written are read again.
LEMMA CellsWritten ==
  ASSUME NEW n \in Nat, NEW at \in Nat \ {0}, NEW values \in Seq(Int), NEW widths, NEW f,
         NEW cells \in Seq(BoardCells), Len(cells) <= n, Room(values, at, n, 2),
         Holds(values, at, PaddedRows(cells, n, Zeros(2)), n, 2), Holds(widths, at, Same(Cell, n), n, 2),
         CutBy(f, values, widths)
  PROVE  Entries(f, at, Len(cells), 2) = cells
  <1> DEFINE l == Len(cells)
  <1>1. cells \in Seq(Seq(Int)) /\ 2 \in Nat
    BY CellRows
  <1>2. Entries(f, at, l, 2) = CutFirst(cells, Cell, l, 2)
    BY <1>1, PaddedWritten
  <1>3. ASSUME NEW i \in 1 .. l PROVE [k \in 1 .. 2 |-> cells[i][k] % Modulus[Cell[k]]] = cells[i]
    <2>1. ASSUME NEW k \in 1 .. 2 PROVE cells[i][k] % Modulus[Cell[k]] = cells[i][k]
      <3>1. Cell[k] = 1
        BY DEF Cell
      <3>2. cells[i][k] \in Byte
        BY CellRows
      <3>. QED BY <3>1, <3>2, KeptIn, Zenon
    <2>2. cells[i] = [k \in 1 .. 2 |-> cells[i][k]]
      BY CellRows
    <2>3. [k \in 1 .. 2 |-> cells[i][k] % Modulus[Cell[k]]] = [k \in 1 .. 2 |-> cells[i][k]]
      BY <2>1, Zenon
    <2>. QED BY <2>2, <2>3, Zenon
  <1>4. CutFirst(cells, Cell, l, 2) = [i \in 1 .. l |-> cells[i]]
    BY <1>3, Zenon DEF CutFirst
  <1>5. cells = [i \in 1 .. l |-> cells[i]]
    OBVIOUS
  <1>. QED BY <1>2, <1>4, <1>5, Zenon

\* And those that are read, and are of the board, are a list of its cells.
LEMMA CellsRead ==
  ASSUME NEW n \in Nat, NEW at \in Nat \ {0}, NEW widths \in Seq({1, 2, 4}), NEW f, FieldsOf(f, widths),
         Room(widths, at, n, 2), Holds(widths, at, Same(Cell, n), n, 2), NEW l \in 0 .. n,
         \A i \in 1 .. l : IsTileCell(Entries(f, at, l, 2)[i])
  PROVE  Entries(f, at, l, 2) \in Seq(BoardCells) /\ Len(Entries(f, at, l, 2)) = l
  <1> DEFINE e == Entries(f, at, l, 2)
  <1>1. /\ e = [i \in 1 .. l |-> [k \in 1 .. 2 |-> e[i][k]]]
        /\ \A i \in 1 .. l : \A k \in 1 .. 2 : e[i][k] \in 0 .. Modulus[Cell[k]] - 1
    <2>1. 2 \in Nat
      OBVIOUS
    <2>. QED BY <2>1, RowsRead, Zenon
  <1>2. \A i \in 1 .. l : IsTileCell(e[i])
    OBVIOUS
  <1> HIDE DEF e
  <1>3. ASSUME NEW i \in 1 .. l PROVE e[i] \in BoardCells
    <2>1. e[i] = [k \in 1 .. 2 |-> e[i][k]]
      BY <1>1, Zenon
    <2>2. e[i] = <<e[i][1], e[i][2]>>
      BY <2>1, PairOf
    <2>3. Cell[1] = 1 /\ Cell[2] = 1 /\ 1 \in 1 .. 2 /\ 2 \in 1 .. 2
      BY DEF Cell
    <2>4. e[i][1] \in Byte /\ e[i][2] \in Byte
      BY <1>1, <2>3, Zenon DEF Byte
    <2>5. e[i][1] < Width /\ e[i][2] < Height
      BY <1>2 DEF IsTileCell
    <2>6. e[i][1] \in 0 .. Width - 1 /\ e[i][2] \in 0 .. Height - 1
      <3>1. e[i][1] \in Nat /\ e[i][2] \in Nat /\ Width \in Nat /\ Height \in Nat
        BY <2>4, Sizes, Fits
      <3>. QED BY ONLY <2>5, <3>1
    <2>. QED BY <2>2, <2>6 DEF BoardCells
  <1>4. e \in [1 .. l -> BoardCells]
    <2>1. e = [i \in 1 .. l |-> e[i]]
      BY <1>1, Zenon
    <2>. QED BY <1>3, <2>1
  <1>5. e \in Seq(BoardCells) /\ Len(e) = l
    BY <1>4, FunctionIsSeq
  <1>. QED BY <1>5 DEF e

-----------------------------------------------------------------------------
(* Explosions. *)

\* The parts of an explosion that can be sent.
LEMMA ExplosionParts ==
  ASSUME NEW m \in ExplosionMsgs
  PROVE  /\ m.type = "ExplosionResolved" /\ m.matchId \in Long /\ m.tick \in Long /\ m.owner \in PlayerIds
         /\ m.origin \in BoardCells /\ m.radius \in Byte \ {0} /\ m.killed \in Byte
         /\ m.blast \in Seq(BoardCells) /\ m.bricks \in Seq(BoardCells)
         /\ Len(m.blast) \in 1 .. MaxBlast /\ Len(m.bricks) <= MaxBricks /\ Len(m.bricks) <= Len(m.blast)
         /\ m.killed < 2 ^ MaxPlayers /\ Distinct(m.blast) /\ m.blast[1] = m.origin
         /\ \A i \in DOMAIN m.bricks : \E j \in DOMAIN m.blast : m.bricks[i] = m.blast[j]
         /\ Distinct(m.bricks)
         /\ m = [type |-> "ExplosionResolved", matchId |-> m.matchId, tick |-> m.tick, owner |-> m.owner,
                 origin |-> m.origin, radius |-> m.radius, killed |-> m.killed, blast |-> m.blast,
                 bricks |-> m.bricks]
  BY DEF ExplosionMsgs

\* What is read of fields, by the names of its parts.
LEMMA ExplosionRead ==
  ASSUME NEW f, NEW blast, blast = Entries(f, 10, f[8], 2),
         NEW bricks, bricks = Entries(f, 10 + 2 * MaxBlast, f[9], 2), NEW origin, origin = <<f[4], f[5]>>
  PROVE  Deserialize("ExplosionResolved", f) =
           IF f[8] \in 1 .. MaxBlast /\ f[9] <= MaxBricks /\ f[9] <= f[8]
           THEN OrReject(
                  /\ IsPlayerId(f[3]) /\ IsTileCell(origin) /\ f[6] # 0 /\ f[7] < 2 ^ MaxPlayers
                  /\ \A i \in DOMAIN blast : IsTileCell(blast[i])
                  /\ Distinct(blast) /\ blast[1] = origin
                  /\ \A i \in DOMAIN bricks : \E j \in DOMAIN blast : bricks[i] = blast[j]
                  /\ Distinct(bricks),
                  [type |-> "ExplosionResolved", matchId |-> f[1], tick |-> f[2], owner |-> f[3],
                   origin |-> origin, radius |-> f[6], killed |-> f[7], blast |-> blast, bricks |-> bricks])
           ELSE Rejected
  <1>1. Deserialize("ExplosionResolved", f) = ReadExplosion(f)
    BY DEF Deserialize, Handshake, RoundControl
  <1>. QED BY <1>1, Zenon DEF ReadExplosion

\* An ExplosionResolved comes as it was sent.
LEMMA ExplosionTrips == \A m \in ExplosionMsgs : Trips(m)
  <1> SUFFICES ASSUME NEW m \in ExplosionMsgs PROVE Trips(m)
    OBVIOUS
  <1> DEFINE h == <<m.matchId, m.tick, m.owner, m.origin[1], m.origin[2], m.radius, m.killed,
                    Len(m.blast), Len(m.bricks)>>
             widths == <<4, 4, 1, 1, 1, 1, 1, 1, 1>>
             a == CellFields(m.blast, MaxBlast)
             b == CellFields(m.bricks, MaxBricks)
             tops == PaddedRows(m.blast, MaxBlast, Zeros(2))
             middles == PaddedRows(m.bricks, MaxBricks, Zeros(2))
             v == Values(m)
             w == Layout(m.type)
             f == Serialize(m)
             size == MaxBlast * 2
             more == MaxBricks * 2
  <1>1. /\ m.type = "ExplosionResolved" /\ m.matchId \in Long /\ m.tick \in Long /\ m.owner \in PlayerIds
        /\ m.origin \in BoardCells /\ m.radius \in Byte \ {0} /\ m.killed \in Byte
        /\ m.blast \in Seq(BoardCells) /\ m.bricks \in Seq(BoardCells)
    BY ExplosionParts, Zenon
  <1>2. Len(m.blast) \in 1 .. MaxBlast /\ Len(m.bricks) <= MaxBricks /\ Len(m.bricks) <= Len(m.blast)
    BY ExplosionParts, Zenon
  <1>3. v = h \o a \o b
    BY <1>1 DEF Values, Handshake, RoundControl, WriteExplosion
  <1>4. m.type \in MsgTypes
    BY <1>1 DEF MsgTypes
  <1>5. /\ MaxBlast \in Nat /\ MaxBricks \in Nat /\ 2 \in Nat /\ size \in Nat /\ more \in Nat
        /\ Len(m.blast) \in Nat /\ Len(m.bricks) \in Nat /\ MaxBlast < Modulus[1] /\ MaxBricks < Modulus[1]
        /\ Len(m.blast) <= MaxBlast /\ size = 2 * MaxBlast /\ Modulus[1] \in Nat
    <2>1. Len(m.blast) \in Nat /\ Len(m.bricks) \in Nat
      BY <1>1, LenOfAny, Zenon
    <2>2. Len(m.blast) <= MaxBlast
      BY ONLY <1>2
    <2>3. /\ MaxBlast \in Nat /\ MaxBricks \in Nat /\ 2 \in Nat /\ MaxBlast < Modulus[1] /\ MaxBricks < Modulus[1]
          /\ Modulus[1] \in Nat
      BY ONLY Sizes
    <2>4. size \in Nat /\ more \in Nat /\ size = 2 * MaxBlast
      BY ONLY <2>3
    <2>. QED BY <2>1, <2>2, <2>3, <2>4, Zenon
  <1>6. /\ m.matchId \in Int /\ m.tick \in Int /\ m.owner \in Byte /\ m.origin[1] \in Byte /\ m.origin[2] \in Byte
        /\ m.radius \in Byte /\ m.origin = <<m.origin[1], m.origin[2]>> /\ IsTileCell(m.origin)
        /\ \A i \in 1 .. Len(m.blast) : IsTileCell(m.blast[i])
    <2>1. \A i \in 1 .. Len(m.blast) : m.blast[i] \in BoardCells
      BY <1>1, CellRows, Zenon
    <2>2. m.matchId \in Nat /\ m.tick \in Nat /\ m.owner \in Byte /\ m.radius \in Byte
      BY <1>1, Fits, Zenon
    <2>3. m.matchId \in Int /\ m.tick \in Int
      BY ONLY <2>2
    <2>. QED BY <1>1, <2>1, <2>2, <2>3, Fits, Zenon
  <1>7. Len(m.blast) \in Byte /\ Len(m.bricks) \in Byte
    <2>1. Len(m.blast) < Modulus[1] /\ Len(m.bricks) < Modulus[1]
      BY ONLY <1>2, <1>5
    <2>. QED BY ONLY <1>5, <2>1 DEF Byte
  <1>8. /\ h \in Seq(Int) /\ Len(h) = 9
        /\ h[1] = m.matchId /\ h[2] = m.tick /\ h[3] = m.owner /\ h[4] = m.origin[1] /\ h[5] = m.origin[2]
        /\ h[6] = m.radius /\ h[7] = m.killed /\ h[8] = Len(m.blast) /\ h[9] = Len(m.bricks)
    <2>1. /\ m.matchId \in Int /\ m.tick \in Int /\ m.owner \in Int /\ m.origin[1] \in Int /\ m.origin[2] \in Int
          /\ m.radius \in Int /\ m.killed \in Int /\ Len(m.blast) \in Int /\ Len(m.bricks) \in Int
      BY <1>1, <1>6, <1>7, Fits
    <2>2. h = <<m.matchId, m.tick, m.owner, m.origin[1], m.origin[2], m.radius, m.killed,
                Len(m.blast), Len(m.bricks)>>
      OBVIOUS
    <2> HIDE DEF h
    <2>. QED BY ONLY <2>1, <2>2
  <1>9. /\ Len(widths) = 9 /\ widths[1] = 4 /\ widths[2] = 4 /\ widths[3] = 1 /\ widths[4] = 1 /\ widths[5] = 1
        /\ widths[6] = 1 /\ widths[7] = 1 /\ widths[8] = 1 /\ widths[9] = 1
    OBVIOUS
  <1>10. Table(a, tops, MaxBlast, 2) /\ Table(b, middles, MaxBricks, 2)
    <2>1. Zeros(2) \in Seq(Int) /\ Len(Zeros(2)) = 2 /\ Len(Zeros(2)) # 0
      <3>1. 2 \in Nat \ {0}
        OBVIOUS
      <3>. QED BY <3>1, ZerosAre, Zenon
    <2>2. /\ m.blast \in Seq(Seq(Int)) /\ \A i \in 1 .. Len(m.blast) : Len(m.blast[i]) = Len(Zeros(2))
          /\ m.bricks \in Seq(Seq(Int)) /\ \A i \in 1 .. Len(m.bricks) : Len(m.bricks[i]) = Len(Zeros(2))
      BY <1>1, <2>1, CellRows, Zenon
    <2>3. /\ Table(Padded(m.blast, MaxBlast, Zeros(2)), tops, MaxBlast, Len(Zeros(2)))
          /\ Table(Padded(m.bricks, MaxBricks, Zeros(2)), middles, MaxBricks, Len(Zeros(2)))
      BY <1>2, <1>5, <2>1, <2>2, PaddedTable, Zenon
    <2>. QED BY <2>1, <2>3, Zenon DEF CellFields
  <1> HIDE DEF h, widths, a, b, tops, middles, v, w, f, size, more
  <1>11. TwiceExtended(v, h, tops, MaxBlast, 2, middles, MaxBricks, 2)
    <2>1. TwiceExtended(h \o a \o b, h, tops, MaxBlast, 2, middles, MaxBricks, 2)
      BY <1>5, <1>8, <1>10, TwoTables, Zenon
    <2>. QED BY <1>3, <2>1, Zenon
  <1>12. TwiceExtended(w, widths, Same(Cell, MaxBlast), MaxBlast, 2, Same(Cell, MaxBricks), MaxBricks, 2)
    BY <1>1, ExplosionLayout DEF w, widths
  <1>13. /\ Begins(v, h) /\ Len(v) = 9 + size + more /\ Holds(v, 10, tops, MaxBlast, 2) /\ v \in Seq(Int)
         /\ Holds(v, 10 + size, middles, MaxBricks, 2)
         /\ Begins(w, widths) /\ Len(w) = 9 + size + more /\ Holds(w, 10, Same(Cell, MaxBlast), MaxBlast, 2)
         /\ Holds(w, 10 + size, Same(Cell, MaxBricks), MaxBricks, 2)
    <2>1. 9 + 1 = 10
      OBVIOUS
    <2>. QED BY <1>8, <1>9, <1>11, <1>12, <2>1, Zenon DEF TwiceExtended, Begins, size, more
  <1>14. FieldsOf(f, w) /\ CutBy(f, v, w)
    <2>1. Len(v) = Len(w)
      BY <1>13
    <2>. QED BY <1>4, <1>13, <2>1, Written, Zenon DEF CutBy, f, v, w
  <1>15. /\ f[1] = m.matchId /\ f[2] = m.tick /\ f[3] = m.owner /\ f[4] = m.origin[1] /\ f[5] = m.origin[2]
         /\ f[6] = m.radius /\ f[7] = m.killed /\ f[8] = Len(m.blast) /\ f[9] = Len(m.bricks)
    <2>1. ASSUME NEW i \in 1 .. 9 PROVE f[i] = h[i] % Modulus[widths[i]]
      <3>1. i \in 1 .. Len(v) /\ i \in 1 .. Len(h) /\ i \in 1 .. Len(widths)
        <4>1. Len(v) = 9 + size + more /\ Len(h) = 9 /\ Len(widths) = 9
          BY <1>8, <1>9, <1>13, Zenon
        <4>. QED BY ONLY <1>5, <4>1
      <3>. QED BY <1>13, <1>14, <3>1, Zenon DEF CutBy, Begins
    <2>2. /\ h[1] % Modulus[4] = h[1] /\ h[2] % Modulus[4] = h[2] /\ h[3] % Modulus[1] = h[3]
          /\ h[4] % Modulus[1] = h[4] /\ h[5] % Modulus[1] = h[5] /\ h[6] % Modulus[1] = h[6]
          /\ h[7] % Modulus[1] = h[7] /\ h[8] % Modulus[1] = h[8] /\ h[9] % Modulus[1] = h[9]
      <3>1. /\ h[1] \in Long /\ h[2] \in Long /\ h[3] \in Byte /\ h[4] \in Byte /\ h[5] \in Byte
            /\ h[6] \in Byte /\ h[7] \in Byte /\ h[8] \in Byte /\ h[9] \in Byte
        BY <1>1, <1>6, <1>7, <1>8, Zenon
      <3>. QED BY <3>1, KeptIn, Zenon
    <2>. QED BY <1>8, <1>9, <2>1, <2>2, SMTT(40)
  <1>16. Entries(f, 10, Len(m.blast), 2) = m.blast
    <2>1. Room(v, 10, MaxBlast, 2) /\ 10 \in Nat \ {0}
      <3>1. (10 - 1) + size <= Len(v)
        BY ONLY <1>5, <1>13
      <3>. QED BY <3>1 DEF Room, size
    <2>. QED BY <1>1, <1>5, <1>13, <1>14, <2>1, CellsWritten, Zenon DEF tops
  <1>17. Entries(f, 10 + 2 * MaxBlast, Len(m.bricks), 2) = m.bricks
    <2> DEFINE at == 10 + size
    <2>1. Room(v, at, MaxBricks, 2) /\ at \in Nat \ {0} /\ at = 10 + 2 * MaxBlast
      <3>1. (at - 1) + more <= Len(v) /\ at \in Nat \ {0} /\ at = 10 + 2 * MaxBlast
        BY ONLY <1>5, <1>13
      <3> HIDE DEF at
      <3>. QED BY <3>1, Zenon DEF Room, more
    <2>2. Holds(v, at, middles, MaxBricks, 2) /\ Holds(w, at, Same(Cell, MaxBricks), MaxBricks, 2)
      BY <1>13, Zenon
    <2> HIDE DEF at
    <2>3. Entries(f, at, Len(m.bricks), 2) = m.bricks
      BY <1>1, <1>2, <1>5, <1>13, <1>14, <2>1, <2>2, CellsWritten, Zenon DEF middles
    <2>. QED BY <2>1, <2>3, Zenon
  <1>18. Deserialize(m.type, f) = m
    <2>1. /\ m.blast = Entries(f, 10, f[8], 2) /\ m.bricks = Entries(f, 10 + 2 * MaxBlast, f[9], 2)
          /\ m.origin = <<f[4], f[5]>>
      BY <1>6, <1>15, <1>16, <1>17, Zenon
    <2>2. IsPlayerId(f[3])
      <3>1. f[3] \in 0 .. MaxPlayers - 1 /\ MaxPlayers \in Nat
        BY <1>1, <1>15, Sizes, Zenon DEF PlayerIds
      <3>. QED BY ONLY <3>1 DEF IsPlayerId
    <2>3. DOMAIN m.blast = 1 .. Len(m.blast)
      BY <1>1
    <2>4. IsTileCell(m.origin) /\ f[6] # 0 /\ f[7] < 2 ^ MaxPlayers /\ \A i \in DOMAIN m.blast : IsTileCell(m.blast[i])
      BY <1>1, <1>6, <1>15, <2>3, ExplosionParts, Zenon
    <2>5. f[8] \in 1 .. MaxBlast /\ f[9] <= MaxBricks /\ f[9] <= f[8]
      BY <1>2, <1>15, Zenon
    <2> DEFINE read == [type |-> "ExplosionResolved", matchId |-> f[1], tick |-> f[2], owner |-> f[3],
                        origin |-> m.origin, radius |-> f[6], killed |-> f[7], blast |-> m.blast, bricks |-> m.bricks]
    <2>6. read = m
      BY <1>15, ExplosionParts, Zenon
    <2>7. Deserialize("ExplosionResolved", f) = OrReject(
            /\ IsPlayerId(f[3]) /\ IsTileCell(m.origin) /\ f[6] # 0 /\ f[7] < 2 ^ MaxPlayers
            /\ \A i \in DOMAIN m.blast : IsTileCell(m.blast[i])
            /\ Distinct(m.blast) /\ m.blast[1] = m.origin
            /\ \A i \in DOMAIN m.bricks : \E j \in DOMAIN m.blast : m.bricks[i] = m.blast[j]
            /\ Distinct(m.bricks), read)
      BY <2>1, <2>5, ExplosionRead, Zenon
    <2> HIDE DEF read
    <2>8. /\ Distinct(m.blast) /\ m.blast[1] = m.origin /\ Distinct(m.bricks)
          /\ \A i \in DOMAIN m.bricks : \E j \in DOMAIN m.blast : m.bricks[i] = m.blast[j]
      BY ExplosionParts, Zenon
    <2>9. Deserialize("ExplosionResolved", f) = read
      BY <2>2, <2>4, <2>7, <2>8, Zenon DEF OrReject
    <2>. QED BY <1>1, <2>6, <2>9, Zenon
  <1>19. Shortened(m) = m
    BY <1>1 DEF Shortened
  <1>. QED BY <1>14, <1>18, <1>19, Zenon DEF Trips, f, w

\* And one that is read has cells of the board, no two alike, and bricks that it reached.
LEMMA ExplosionReads == Reads("ExplosionResolved", ExplosionMsgs)
  <1> SUFFICES ASSUME NEW f, FieldsOf(f, Layout("ExplosionResolved")), Deserialize("ExplosionResolved", f) # Rejected
               PROVE  LET m == Deserialize("ExplosionResolved", f)
                      IN  m \in ExplosionMsgs /\ m.type = "ExplosionResolved" /\ Shortened(m) = m
    BY ReadsIf, Zenon
  <1> DEFINE m == Deserialize("ExplosionResolved", f)
             widths == <<4, 4, 1, 1, 1, 1, 1, 1, 1>>
             w == Layout("ExplosionResolved")
             size == MaxBlast * 2
             more == MaxBricks * 2
             at == 10 + 2 * MaxBlast
             blast == Entries(f, 10, f[8], 2)
             bricks == Entries(f, at, f[9], 2)
             origin == <<f[4], f[5]>>
  <1>1. MaxBlast \in Nat /\ MaxBricks \in Nat /\ 2 \in Nat /\ size \in Nat /\ more \in Nat /\ size = 2 * MaxBlast
    BY Sizes
  <1>2. /\ Len(widths) = 9 /\ widths[1] = 4 /\ widths[2] = 4 /\ widths[3] = 1 /\ widths[4] = 1 /\ widths[5] = 1
        /\ widths[6] = 1 /\ widths[7] = 1 /\ widths[8] = 1 /\ widths[9] = 1
    OBVIOUS
  <1>3. /\ w \in Seq({1, 2, 4})
        /\ TwiceExtended(w, widths, Same(Cell, MaxBlast), MaxBlast, 2, Same(Cell, MaxBricks), MaxBricks, 2)
    BY ExplosionLayout, Zenon
  <1>4. FieldsOf(f, w) /\ m # Rejected
    OBVIOUS
  <1>5. m = IF f[8] \in 1 .. MaxBlast /\ f[9] <= MaxBricks /\ f[9] <= f[8]
            THEN OrReject(
                   /\ IsPlayerId(f[3]) /\ IsTileCell(origin) /\ f[6] # 0 /\ f[7] < 2 ^ MaxPlayers
                   /\ \A i \in DOMAIN blast : IsTileCell(blast[i])
                   /\ Distinct(blast) /\ blast[1] = origin
                   /\ \A i \in DOMAIN bricks : \E j \in DOMAIN blast : bricks[i] = blast[j]
                   /\ Distinct(bricks),
                   [type |-> "ExplosionResolved", matchId |-> f[1], tick |-> f[2], owner |-> f[3],
                    origin |-> origin, radius |-> f[6], killed |-> f[7], blast |-> blast, bricks |-> bricks])
            ELSE Rejected
    BY ExplosionRead, Zenon
  <1> HIDE DEF m, widths, w, size, more, at, blast, bricks, origin
  <1>6. /\ f[8] \in 1 .. MaxBlast /\ f[9] <= MaxBricks /\ f[9] <= f[8]
        /\ IsPlayerId(f[3]) /\ IsTileCell(origin) /\ f[6] # 0 /\ f[7] < 2 ^ MaxPlayers
        /\ \A i \in DOMAIN blast : IsTileCell(blast[i])
        /\ Distinct(blast) /\ blast[1] = origin
        /\ \A i \in DOMAIN bricks : \E j \in DOMAIN blast : bricks[i] = blast[j]
        /\ Distinct(bricks)
        /\ m = [type |-> "ExplosionResolved", matchId |-> f[1], tick |-> f[2], owner |-> f[3],
                origin |-> origin, radius |-> f[6], killed |-> f[7], blast |-> blast, bricks |-> bricks]
    BY <1>4, <1>5, Zenon DEF OrReject
  <1>7. /\ Begins(w, widths) /\ Len(w) = 9 + size + more /\ Holds(w, 10, Same(Cell, MaxBlast), MaxBlast, 2)
        /\ Holds(w, 10 + size, Same(Cell, MaxBricks), MaxBricks, 2)
    <2>1. 9 + 1 = 10
      OBVIOUS
    <2>. QED BY <1>2, <1>3, <2>1, Zenon DEF TwiceExtended, size, more
  <1>8. /\ f[1] \in Long /\ f[2] \in Long /\ f[3] \in Byte /\ f[4] \in Byte /\ f[5] \in Byte
        /\ f[6] \in Byte /\ f[7] \in Byte /\ f[8] \in Byte /\ f[9] \in Byte
    <2>1. ASSUME NEW i \in 1 .. 9 PROVE f[i] \in 0 .. Modulus[widths[i]] - 1
      <3>1. i \in 1 .. Len(w) /\ i \in 1 .. Len(widths)
        <4>1. Len(w) = 9 + size + more /\ Len(widths) = 9
          BY <1>2, <1>7, Zenon
        <4>. QED BY ONLY <1>1, <4>1
      <3>. QED BY <1>4, <1>7, <3>1, Zenon DEF FieldsOf, Begins
    <2>. QED BY <1>2, <2>1 DEF Byte, Long
  <1>9. blast \in Seq(BoardCells) /\ Len(blast) = f[8]
    <2>1. Room(w, 10, MaxBlast, 2) /\ 10 \in Nat \ {0}
      <3>1. (10 - 1) + size <= Len(w)
        BY ONLY <1>1, <1>7
      <3>. QED BY <3>1 DEF Room, size
    <2>2. f[8] \in 0 .. MaxBlast
      BY <1>1, <1>6
    <2>3. DOMAIN blast = 1 .. f[8]
      BY DEF blast, Entries
    <2>4. \A i \in 1 .. f[8] : IsTileCell(Entries(f, 10, f[8], 2)[i])
      BY <1>6, <2>3, Zenon DEF blast
    <2>. QED BY <1>1, <1>3, <1>4, <1>7, <2>1, <2>2, <2>4, CellsRead, SMTT(40) DEF blast
  <1>10. bricks \in Seq(BoardCells) /\ Len(bricks) = f[9]
    <2>1. Room(w, at, MaxBricks, 2) /\ at \in Nat \ {0} /\ at = 10 + size
      <3>1. at = 10 + size
        BY ONLY <1>1 DEF at
      <3>2. (at - 1) + more <= Len(w) /\ at \in Nat \ {0}
        BY ONLY <1>1, <1>7, <3>1
      <3>. QED BY <3>1, <3>2, Zenon DEF Room, more
    <2>2. f[9] \in 0 .. MaxBricks
      BY <1>1, <1>6, <1>8, Fits
    <2>3. DOMAIN bricks = 1 .. f[9] /\ DOMAIN blast = 1 .. f[8]
      BY DEF bricks, blast, Entries
    <2>4. \A i \in 1 .. f[9] : IsTileCell(Entries(f, at, f[9], 2)[i])
      BY <1>6, <2>3, Zenon DEF bricks
    <2>5. Holds(w, at, Same(Cell, MaxBricks), MaxBricks, 2)
      BY <1>7, <2>1, Zenon
    <2>. QED BY <1>1, <1>3, <1>4, <2>1, <2>2, <2>4, <2>5, CellsRead, SMTT(40) DEF bricks
  <1>11. f[3] \in PlayerIds
    BY <1>6, <1>8, Sizes DEF IsPlayerId, PlayerIds, Byte
  <1>12. origin \in BoardCells
    <2>1. 1 \in 1 .. Len(blast)
      BY <1>6, <1>9
    <2>. QED BY <1>6, <1>9, <2>1, CellRows, Zenon
  <1>13. m \in ExplosionMsgs
    <2>1. /\ m.type = "ExplosionResolved" /\ m.matchId = f[1] /\ m.tick = f[2] /\ m.owner = f[3] /\ m.origin = origin
          /\ m.radius = f[6] /\ m.killed = f[7] /\ m.blast = blast /\ m.bricks = bricks
      BY <1>6
    <2>2. f[6] \in Byte \ {0}
      BY <1>6, <1>8, Zenon
    <2>3. m \in [type : {"ExplosionResolved"}, matchId : Long, tick : Long, owner : PlayerIds, origin : BoardCells,
                 radius : Byte \ {0}, killed : Byte, blast : Seq(BoardCells), bricks : Seq(BoardCells)]
      BY <1>6, <1>8, <1>9, <1>10, <1>11, <1>12, <2>2
    <2>. QED BY <1>6, <1>9, <1>10, <2>1, <2>3, Zenon DEF ExplosionMsgs
  <1>14. m.type = "ExplosionResolved" /\ Shortened(m) = m
    BY <1>6 DEF Shortened
  <1>. QED BY <1>13, <1>14, Zenon DEF m

-----------------------------------------------------------------------------
(* Snapshots. *)

\* The fields of a player, a bomb and a powerup, and those of all of them.
PlayerRow(p) == <<p.id, p.x, p.y, p.flags>>
BombRow(b) == <<b.owner, b.cell[1], b.cell[2], b.radius>>
PowerupRow(u) == <<u.kind, u.cell[1], u.cell[2]>>
PlayerRows(players) == [i \in 1 .. Len(players) |-> PlayerRow(players[i])]
BombRows(bombs) == [i \in 1 .. Len(bombs) |-> BombRow(bombs[i])]
PowerupRows(powerups) == [i \in 1 .. Len(powerups) |-> PowerupRow(powerups[i])]

\* What is made of entries that are read.
ReadPlayers(e) ==
  [i \in DOMAIN e |-> [id |-> e[i][1], x |-> Signed(e[i][2]), y |-> Signed(e[i][3]), flags |-> e[i][4]]]
ReadBombs(e) == [i \in DOMAIN e |-> [owner |-> e[i][1], cell |-> <<e[i][2], e[i][3]>>, radius |-> e[i][4]]]
ReadPowerups(e) == [i \in DOMAIN e |-> [kind |-> e[i][1], cell |-> <<e[i][2], e[i][3]>>]]

\* The order of a snapshot's lists, and what a receiver asks of each.
IdsOf(players) == [i \in DOMAIN players |-> players[i].id]
KeysOf(things) == [i \in DOMAIN things |-> TileCellKey(things[i].cell)]
PlayersOk(p) == (\A i \in DOMAIN p : IsPlayerId(p[i].id) /\ p[i].flags \in PlayerFlags) /\ Ascending(IdsOf(p))
BombsOk(b) ==
  (\A i \in DOMAIN b : IsPlayerId(b[i].owner) /\ IsTileCell(b[i].cell) /\ b[i].radius # 0) /\ Ascending(KeysOf(b))
PowerupsOk(u) == (\A i \in DOMAIN u : u[i].kind < PowerupTypes /\ IsTileCell(u[i].cell)) /\ Ascending(KeysOf(u))

\* What is read of fields, by the names of its parts.
LEMMA SnapshotRead ==
  ASSUME NEW f, NEW e, e = Entries(f, 6, f[3], 4), NEW g, g = Entries(f, 6 + 4 * MaxPlayers, f[4], 4),
         NEW h, h = Entries(f, 6 + 4 * MaxPlayers + 4 * MaxBombs, f[5], 3),
         NEW p, p = ReadPlayers(e), NEW b, b = ReadBombs(g), NEW u, u = ReadPowerups(h)
  PROVE  Deserialize("Snapshot", f) =
           IF f[3] <= MaxPlayers /\ f[4] <= MaxBombs /\ f[5] <= MaxPowerups
           THEN OrReject(PlayersOk(p) /\ BombsOk(b) /\ PowerupsOk(u),
                         [type |-> "Snapshot", matchId |-> f[1], tick |-> f[2],
                          players |-> p, bombs |-> b, powerups |-> u])
           ELSE Rejected
  <1> DEFINE ids == [i \in DOMAIN e |-> e[i][1]]
             bombCells == [i \in DOMAIN g |-> <<g[i][2], g[i][3]>>]
             cells == [i \in DOMAIN h |-> <<h[i][2], h[i][3]>>]
             few == f[3] <= MaxPlayers /\ f[4] <= MaxBombs /\ f[5] <= MaxPowerups
             readP == [i \in DOMAIN e |-> [id |-> ids[i], x |-> Signed(e[i][2]), y |-> Signed(e[i][3]), flags |-> e[i][4]]]
             readB == [i \in DOMAIN g |-> [owner |-> g[i][1], cell |-> bombCells[i], radius |-> g[i][4]]]
             readU == [i \in DOMAIN h |-> [kind |-> h[i][1], cell |-> cells[i]]]
             okP == \A i \in DOMAIN e : IsPlayerId(ids[i]) /\ e[i][4] \in PlayerFlags
             okB == \A i \in DOMAIN g : IsPlayerId(g[i][1]) /\ IsTileCell(bombCells[i]) /\ g[i][4] # 0
             okU == \A i \in DOMAIN h : h[i][1] < PowerupTypes /\ IsTileCell(cells[i])
             keysB == [i \in DOMAIN g |-> TileCellKey(bombCells[i])]
             keysU == [i \in DOMAIN h |-> TileCellKey(cells[i])]
  <1>1. Deserialize("Snapshot", f) = ReadSnapshot(f)
    BY DEF Deserialize, Handshake, RoundControl
  <1>2. ReadSnapshot(f) =
          IF few
          THEN OrReject(/\ okP /\ Ascending(ids) /\ okB /\ Ascending(keysB) /\ okU /\ Ascending(keysU),
                        [type |-> "Snapshot", matchId |-> f[1], tick |-> f[2],
                         players |-> readP, bombs |-> readB, powerups |-> readU])
          ELSE Rejected
    BY Zenon DEF ReadSnapshot
  <1> HIDE DEF few
  <1>3. readP = p /\ ids = IdsOf(p) /\ (okP <=> \A i \in DOMAIN p : IsPlayerId(p[i].id) /\ p[i].flags \in PlayerFlags)
    <2>1. p = [i \in DOMAIN e |-> [id |-> e[i][1], x |-> Signed(e[i][2]), y |-> Signed(e[i][3]), flags |-> e[i][4]]]
      BY Zenon DEF ReadPlayers
    <2>2. DOMAIN p = DOMAIN e /\ \A i \in DOMAIN e : p[i].id = e[i][1] /\ p[i].flags = e[i][4]
      BY <2>1
    <2>3. \A i \in DOMAIN e : ids[i] = e[i][1]
      OBVIOUS
    <2>4. readP = p
      BY <2>1, <2>3, Zenon
    <2>5. ids = IdsOf(p)
      BY <2>2, Zenon DEF IdsOf
    <2> HIDE DEF ids
    <2>. QED BY <2>2, <2>3, <2>4, <2>5, Zenon
  <1>4. /\ readB = b /\ keysB = KeysOf(b)
        /\ okB <=> \A i \in DOMAIN b : IsPlayerId(b[i].owner) /\ IsTileCell(b[i].cell) /\ b[i].radius # 0
    <2>1. b = [i \in DOMAIN g |-> [owner |-> g[i][1], cell |-> <<g[i][2], g[i][3]>>, radius |-> g[i][4]]]
      BY Zenon DEF ReadBombs
    <2>2. \A i \in DOMAIN g : bombCells[i] = <<g[i][2], g[i][3]>>
      OBVIOUS
    <2>3. DOMAIN b = DOMAIN g /\ \A i \in DOMAIN g : b[i].owner = g[i][1] /\ b[i].cell = bombCells[i] /\ b[i].radius = g[i][4]
      BY <2>1
    <2> HIDE DEF bombCells
    <2>4. readB = b
      BY <2>1, <2>2, Zenon
    <2>5. keysB = KeysOf(b)
      BY <2>3, Zenon DEF KeysOf
    <2>6. okB <=> \A i \in DOMAIN b : IsPlayerId(b[i].owner) /\ IsTileCell(b[i].cell) /\ b[i].radius # 0
      <3>1. ASSUME NEW i \in DOMAIN g
            PROVE  (IsPlayerId(g[i][1]) /\ IsTileCell(bombCells[i]) /\ g[i][4] # 0)
                     <=> (IsPlayerId(b[i].owner) /\ IsTileCell(b[i].cell) /\ b[i].radius # 0)
        <4>1. b[i].owner = g[i][1] /\ b[i].cell = bombCells[i] /\ b[i].radius = g[i][4]
          BY <2>3
        <4>. QED BY ONLY <4>1
      <3>2. DOMAIN b = DOMAIN g
        BY <2>3, Zenon
      <3>. QED BY <3>1, <3>2, Zenon
    <2> HIDE DEF readB, keysB, okB
    <2>. QED BY <2>4, <2>5, <2>6, Zenon
  <1>5. /\ readU = u /\ keysU = KeysOf(u)
        /\ okU <=> \A i \in DOMAIN u : u[i].kind < PowerupTypes /\ IsTileCell(u[i].cell)
    <2>1. u = [i \in DOMAIN h |-> [kind |-> h[i][1], cell |-> <<h[i][2], h[i][3]>>]]
      BY Zenon DEF ReadPowerups
    <2>2. \A i \in DOMAIN h : cells[i] = <<h[i][2], h[i][3]>>
      OBVIOUS
    <2>3. DOMAIN u = DOMAIN h /\ \A i \in DOMAIN h : u[i].kind = h[i][1] /\ u[i].cell = cells[i]
      BY <2>1
    <2> HIDE DEF cells
    <2>4. readU = u
      BY <2>1, <2>2, Zenon
    <2>5. keysU = KeysOf(u)
      BY <2>3, Zenon DEF KeysOf
    <2>. QED BY <2>3, <2>4, <2>5, Zenon
  <1> HIDE DEF readP, readB, readU, okP, okB, okU, ids, keysB, keysU
  <1>6. (okP /\ Ascending(ids) /\ okB /\ Ascending(keysB) /\ okU /\ Ascending(keysU))
          <=> (PlayersOk(p) /\ BombsOk(b) /\ PowerupsOk(u))
    BY <1>3, <1>4, <1>5, Zenon DEF PlayersOk, BombsOk, PowerupsOk
  <1>. QED BY <1>1, <1>2, <1>3, <1>4, <1>5, <1>6 DEF OrReject, few

\* The parts of what a snapshot lists.
LEMMA ListedParts ==
  /\ \A p \in PlayerValues : /\ p.id \in PlayerIds /\ p.x \in Short /\ p.y \in Short /\ p.flags \in PlayerFlags
                             /\ p = [id |-> p.id, x |-> p.x, y |-> p.y, flags |-> p.flags]
  /\ \A b \in BombValues : /\ b.owner \in PlayerIds /\ b.cell \in BoardCells /\ b.radius \in Byte \ {0}
                           /\ b = [owner |-> b.owner, cell |-> b.cell, radius |-> b.radius]
  /\ \A u \in PowerupValues : /\ u.kind \in 0 .. PowerupTypes - 1 /\ u.cell \in BoardCells
                              /\ u = [kind |-> u.kind, cell |-> u.cell]
  BY DEF PlayerValues, BombValues, PowerupValues

\* Four numbers are a row of four, three one of three.
LEMMA RowOfFour ==
  ASSUME NEW a \in Int, NEW b \in Int, NEW c \in Int, NEW d \in Int, NEW r, r = <<a, b, c, d>>
  PROVE  r \in Seq(Int) /\ Len(r) = 4 /\ r[1] = a /\ r[2] = b /\ r[3] = c /\ r[4] = d
  OBVIOUS

\* Likewise.
LEMMA RowOfThree ==
  ASSUME NEW a \in Int, NEW b \in Int, NEW c \in Int, NEW r, r = <<a, b, c>>
  PROVE  r \in Seq(Int) /\ Len(r) = 3 /\ r[1] = a /\ r[2] = b /\ r[3] = c
  OBVIOUS

\* The rows of a snapshot's lists.
LEMMA ListedRows ==
  /\ \A p \in PlayerValues : /\ PlayerRow(p) \in Seq(Int) /\ Len(PlayerRow(p)) = 4 /\ PlayerRow(p)[1] = p.id
                             /\ PlayerRow(p)[2] = p.x /\ PlayerRow(p)[3] = p.y /\ PlayerRow(p)[4] = p.flags
  /\ \A b \in BombValues : /\ BombRow(b) \in Seq(Int) /\ Len(BombRow(b)) = 4 /\ BombRow(b)[1] = b.owner
                           /\ BombRow(b)[2] = b.cell[1] /\ BombRow(b)[3] = b.cell[2] /\ BombRow(b)[4] = b.radius
  /\ \A u \in PowerupValues : /\ PowerupRow(u) \in Seq(Int) /\ Len(PowerupRow(u)) = 3 /\ PowerupRow(u)[1] = u.kind
                              /\ PowerupRow(u)[2] = u.cell[1] /\ PowerupRow(u)[3] = u.cell[2]
  <1>1. \A n \in Byte : n \in Int
    BY Fits
  <1>2. ASSUME NEW p \in PlayerValues
        PROVE  /\ PlayerRow(p) \in Seq(Int) /\ Len(PlayerRow(p)) = 4 /\ PlayerRow(p)[1] = p.id
               /\ PlayerRow(p)[2] = p.x /\ PlayerRow(p)[3] = p.y /\ PlayerRow(p)[4] = p.flags
    <2>1. p.id \in Int /\ p.x \in Int /\ p.y \in Int /\ p.flags \in Int
      BY <1>1, ListedParts, Fits, Zenon
    <2>2. PlayerRow(p) = <<p.id, p.x, p.y, p.flags>>
      BY DEF PlayerRow
    <2>. QED BY <2>1, <2>2, RowOfFour
  <1>3. ASSUME NEW b \in BombValues
        PROVE  /\ BombRow(b) \in Seq(Int) /\ Len(BombRow(b)) = 4 /\ BombRow(b)[1] = b.owner
               /\ BombRow(b)[2] = b.cell[1] /\ BombRow(b)[3] = b.cell[2] /\ BombRow(b)[4] = b.radius
    <2>1. b.owner \in PlayerIds /\ b.cell \in BoardCells /\ b.radius \in Byte
      BY ListedParts
    <2>2. b.owner \in Int /\ b.cell[1] \in Int /\ b.cell[2] \in Int /\ b.radius \in Int
      BY <1>1, <2>1, Fits, Zenon
    <2>3. BombRow(b) = <<b.owner, b.cell[1], b.cell[2], b.radius>>
      BY DEF BombRow
    <2>. QED BY <2>2, <2>3, RowOfFour
  <1>4. ASSUME NEW u \in PowerupValues
        PROVE  /\ PowerupRow(u) \in Seq(Int) /\ Len(PowerupRow(u)) = 3 /\ PowerupRow(u)[1] = u.kind
               /\ PowerupRow(u)[2] = u.cell[1] /\ PowerupRow(u)[3] = u.cell[2]
    <2>1. u.kind \in 0 .. PowerupTypes - 1 /\ u.cell \in BoardCells
      BY ListedParts
    <2>2. u.kind \in Int /\ u.cell[1] \in Int /\ u.cell[2] \in Int
      BY <1>1, <2>1, Fits, Zenon
    <2>3. PowerupRow(u) = <<u.kind, u.cell[1], u.cell[2]>>
      BY DEF PowerupRow
    <2>. QED BY <2>2, <2>3, RowOfThree
  <1>. QED BY <1>2, <1>3, <1>4, Zenon

\* A list of rows, as long as what it lists.
LEMMA RowsOfLists ==
  /\ \A list \in Seq(PlayerValues) : /\ PlayerRows(list) \in Seq(Seq(Int)) /\ Len(PlayerRows(list)) = Len(list)
                                     /\ \A i \in 1 .. Len(list) : Len(PlayerRows(list)[i]) = 4
  /\ \A list \in Seq(BombValues) : /\ BombRows(list) \in Seq(Seq(Int)) /\ Len(BombRows(list)) = Len(list)
                                   /\ \A i \in 1 .. Len(list) : Len(BombRows(list)[i]) = 4
  /\ \A list \in Seq(PowerupValues) : /\ PowerupRows(list) \in Seq(Seq(Int)) /\ Len(PowerupRows(list)) = Len(list)
                                      /\ \A i \in 1 .. Len(list) : Len(PowerupRows(list)[i]) = 3
  <1>1. \A S : \A list \in Seq(S) : Len(list) \in Nat /\ \A i \in 1 .. Len(list) : list[i] \in S
    OBVIOUS
  <1>2. ASSUME NEW list \in Seq(PlayerValues)
        PROVE  /\ PlayerRows(list) \in Seq(Seq(Int)) /\ Len(PlayerRows(list)) = Len(list)
               /\ \A i \in 1 .. Len(list) : Len(PlayerRows(list)[i]) = 4
    <2>1. PlayerRows(list) \in [1 .. Len(list) -> Seq(Int)] /\ \A i \in 1 .. Len(list) : Len(PlayerRows(list)[i]) = 4
      BY <1>1, ListedRows, Zenon DEF PlayerRows
    <2>. QED BY <1>1, <2>1, FunctionIsSeq, Zenon
  <1>3. ASSUME NEW list \in Seq(BombValues)
        PROVE  /\ BombRows(list) \in Seq(Seq(Int)) /\ Len(BombRows(list)) = Len(list)
               /\ \A i \in 1 .. Len(list) : Len(BombRows(list)[i]) = 4
    <2>1. BombRows(list) \in [1 .. Len(list) -> Seq(Int)] /\ \A i \in 1 .. Len(list) : Len(BombRows(list)[i]) = 4
      BY <1>1, ListedRows, Zenon DEF BombRows
    <2>. QED BY <1>1, <2>1, FunctionIsSeq, Zenon
  <1>4. ASSUME NEW list \in Seq(PowerupValues)
        PROVE  /\ PowerupRows(list) \in Seq(Seq(Int)) /\ Len(PowerupRows(list)) = Len(list)
               /\ \A i \in 1 .. Len(list) : Len(PowerupRows(list)[i]) = 3
    <2>1. PowerupRows(list) \in [1 .. Len(list) -> Seq(Int)] /\ \A i \in 1 .. Len(list) : Len(PowerupRows(list)[i]) = 3
      BY <1>1, ListedRows, Zenon DEF PowerupRows
    <2>. QED BY <1>1, <2>1, FunctionIsSeq, Zenon
  <1>. QED BY <1>2, <1>3, <1>4, Zenon

\* A byte that passes for a player's id is one, and two that pass for a cell are one of the board.
LEMMA SeatOf == \A n \in Byte : IsPlayerId(n) => n \in PlayerIds
  BY Sizes DEF Byte, IsPlayerId, PlayerIds

\* Likewise.
LEMMA CellOf == \A a, b \in Byte : IsTileCell(<<a, b>>) => <<a, b>> \in BoardCells
  BY Sizes DEF Byte, IsTileCell, BoardCells

\* Players that are written are read again.
LEMMA PlayersWritten ==
  ASSUME NEW n \in Nat, NEW at \in Nat \ {0}, NEW values \in Seq(Int), NEW widths, NEW f,
         NEW list \in Seq(PlayerValues), Len(list) <= n, Room(values, at, n, 4),
         Holds(values, at, PaddedRows(PlayerRows(list), n, Zeros(4)), n, 4), Holds(widths, at, Same(PlayerEntry, n), n, 4),
         CutBy(f, values, widths)
  PROVE  ReadPlayers(Entries(f, at, Len(list), 4)) = list
  <1> DEFINE l == Len(list)
             rows == PlayerRows(list)
             e == Entries(f, at, l, 4)
             read == ReadPlayers(e)
  <1>1. rows \in Seq(Seq(Int)) /\ Len(rows) = l /\ 4 \in Nat
    BY RowsOfLists
  <1>2. \A i \in 1 .. l : list[i] \in PlayerValues /\ rows[i] = PlayerRow(list[i])
    BY DEF PlayerRows
  <1>3. list = [i \in 1 .. l |-> list[i]]
    OBVIOUS
  <1> HIDE DEF rows, l, e, read
  <1>4. e = CutFirst(rows, PlayerEntry, l, 4)
    <2>1. Entries(f, at, Len(rows), 4) = CutFirst(rows, PlayerEntry, Len(rows), 4)
      BY <1>1, PaddedWritten DEF l, rows
    <2>. QED BY <1>1, <2>1, Zenon DEF e
  <1>5. DOMAIN e = 1 .. l
    BY <1>4, Zenon DEF CutFirst
  <1>6. ASSUME NEW i \in 1 .. l PROVE read[i] = list[i]
    <2>1. \A k \in 1 .. 4 : e[i][k] = rows[i][k] % Modulus[PlayerEntry[k]]
      BY <1>4, Zenon DEF CutFirst
    <2>2. PlayerEntry[1] = 1 /\ PlayerEntry[2] = 2 /\ PlayerEntry[3] = 2 /\ PlayerEntry[4] = 1
      BY DEF PlayerEntry
    <2>3. 1 \in 1 .. 4 /\ 2 \in 1 .. 4 /\ 3 \in 1 .. 4 /\ 4 \in 1 .. 4
      OBVIOUS
    <2> DEFINE p == list[i]
    <2>4. p \in PlayerValues /\ rows[i] = PlayerRow(p)
      BY <1>2
    <2> HIDE DEF p
    <2>5. e[i][1] = p.id % Modulus[1] /\ e[i][2] = p.x % Modulus[2] /\ e[i][3] = p.y % Modulus[2] /\ e[i][4] = p.flags % Modulus[1]
      <3>1. e[i][1] = rows[i][1] % Modulus[PlayerEntry[1]] /\ e[i][2] = rows[i][2] % Modulus[PlayerEntry[2]] /\ e[i][3] = rows[i][3] % Modulus[PlayerEntry[3]] /\ e[i][4] = rows[i][4] % Modulus[PlayerEntry[4]]
        BY <2>1, <2>3, Zenon
      <3>2. rows[i][1] = p.id /\ rows[i][2] = p.x /\ rows[i][3] = p.y /\ rows[i][4] = p.flags
        BY <2>4, ListedRows, Zenon
      <3>. QED BY <2>2, <3>1, <3>2, Zenon
    <2>6. p.id \in Byte /\ p.x \in Short /\ p.y \in Short /\ p.flags \in Byte
      BY <2>4, ListedParts, Fits, Zenon
    <2>7. e[i][1] = p.id /\ Signed(e[i][2]) = p.x /\ Signed(e[i][3]) = p.y /\ e[i][4] = p.flags
      BY <2>5, <2>6, KeptIn, SignedAgain, Zenon
    <2>8. read[i] = [id |-> e[i][1], x |-> Signed(e[i][2]), y |-> Signed(e[i][3]), flags |-> e[i][4]]
      BY <1>5, Zenon DEF read, ReadPlayers
    <2>. QED BY <2>4, <2>7, <2>8, ListedParts, Zenon DEF p
  <1>7. read = [i \in 1 .. l |-> read[i]]
    BY <1>5, Zenon DEF read, ReadPlayers
  <1>. QED BY <1>3, <1>6, <1>7, Zenon DEF read, e, l

\* And those that are read are players, when they pass.
LEMMA PlayersRead ==
  ASSUME NEW n \in Nat, NEW at \in Nat \ {0}, NEW widths \in Seq({1, 2, 4}), NEW f, FieldsOf(f, widths),
         Room(widths, at, n, 4), Holds(widths, at, Same(PlayerEntry, n), n, 4), NEW l \in 0 .. n,
         PlayersOk(ReadPlayers(Entries(f, at, l, 4)))
  PROVE  ReadPlayers(Entries(f, at, l, 4)) \in Seq(PlayerValues) /\ Len(ReadPlayers(Entries(f, at, l, 4))) = l
  <1> DEFINE e == Entries(f, at, l, 4)
             read == ReadPlayers(e)
  <1>1. /\ e = [i \in 1 .. l |-> [k \in 1 .. 4 |-> e[i][k]]]
        /\ \A i \in 1 .. l : \A k \in 1 .. 4 : e[i][k] \in 0 .. Modulus[PlayerEntry[k]] - 1
    <2>1. 4 \in Nat
      OBVIOUS
    <2>. QED BY <2>1, RowsRead, Zenon
  <1>2. PlayersOk(read) /\ l \in Nat
    OBVIOUS
  <1> HIDE DEF e, read
  <1>3. DOMAIN e = 1 .. l
    BY <1>1, Zenon
  <1>4. DOMAIN read = 1 .. l /\ read = [i \in 1 .. l |-> read[i]]
    BY <1>3, Zenon DEF read, ReadPlayers
  <1>5. ASSUME NEW i \in 1 .. l PROVE read[i] \in PlayerValues
    <2>1. PlayerEntry[1] = 1 /\ PlayerEntry[2] = 2 /\ PlayerEntry[3] = 2 /\ PlayerEntry[4] = 1
      BY DEF PlayerEntry
    <2>2. 1 \in 1 .. 4 /\ 2 \in 1 .. 4 /\ 3 \in 1 .. 4 /\ 4 \in 1 .. 4
      OBVIOUS
    <2>3. e[i][1] \in Byte /\ e[i][2] \in Word /\ e[i][3] \in Word /\ e[i][4] \in Byte
      BY <1>1, <2>1, <2>2, Zenon DEF Byte, Word
    <2>4. read[i] = [id |-> e[i][1], x |-> Signed(e[i][2]), y |-> Signed(e[i][3]), flags |-> e[i][4]]
      BY <1>3, Zenon DEF read, ReadPlayers
    <2>5. read[i].id = e[i][1] /\ read[i].flags = e[i][4]
      BY <2>4
    <2>6. IsPlayerId(e[i][1]) /\ e[i][4] \in PlayerFlags
      BY <1>2, <1>4, <2>5, Zenon DEF PlayersOk
    <2>7. e[i][1] \in PlayerIds
      BY <2>3, <2>6, SeatOf, Zenon
    <2>8. Signed(e[i][2]) \in Short /\ Signed(e[i][3]) \in Short
      BY <2>3, SignedAgain, Zenon
    <2>. QED BY <2>4, <2>6, <2>7, <2>8 DEF PlayerValues
  <1>6. read \in [1 .. l -> PlayerValues]
    BY <1>4, <1>5, Zenon
  <1>7. read \in Seq(PlayerValues) /\ Len(read) = l
    BY <1>2, <1>6, FunctionIsSeq
  <1>. QED BY <1>7 DEF read, e

\* Bombs that are written are read again.
LEMMA BombsWritten ==
  ASSUME NEW n \in Nat, NEW at \in Nat \ {0}, NEW values \in Seq(Int), NEW widths, NEW f,
         NEW list \in Seq(BombValues), Len(list) <= n, Room(values, at, n, 4),
         Holds(values, at, PaddedRows(BombRows(list), n, Zeros(4)), n, 4), Holds(widths, at, Same(BombEntry, n), n, 4),
         CutBy(f, values, widths)
  PROVE  ReadBombs(Entries(f, at, Len(list), 4)) = list
  <1> DEFINE l == Len(list)
             rows == BombRows(list)
             e == Entries(f, at, l, 4)
             read == ReadBombs(e)
  <1>1. rows \in Seq(Seq(Int)) /\ Len(rows) = l /\ 4 \in Nat
    BY RowsOfLists
  <1>2. \A i \in 1 .. l : list[i] \in BombValues /\ rows[i] = BombRow(list[i])
    BY DEF BombRows
  <1>3. list = [i \in 1 .. l |-> list[i]]
    OBVIOUS
  <1> HIDE DEF rows, l, e, read
  <1>4. e = CutFirst(rows, BombEntry, l, 4)
    <2>1. Entries(f, at, Len(rows), 4) = CutFirst(rows, BombEntry, Len(rows), 4)
      BY <1>1, PaddedWritten DEF l, rows
    <2>. QED BY <1>1, <2>1, Zenon DEF e
  <1>5. DOMAIN e = 1 .. l
    BY <1>4, Zenon DEF CutFirst
  <1>6. ASSUME NEW i \in 1 .. l PROVE read[i] = list[i]
    <2>1. \A k \in 1 .. 4 : e[i][k] = rows[i][k] % Modulus[BombEntry[k]]
      BY <1>4, Zenon DEF CutFirst
    <2>2. BombEntry[1] = 1 /\ BombEntry[2] = 1 /\ BombEntry[3] = 1 /\ BombEntry[4] = 1
      BY DEF BombEntry
    <2>3. 1 \in 1 .. 4 /\ 2 \in 1 .. 4 /\ 3 \in 1 .. 4 /\ 4 \in 1 .. 4
      OBVIOUS
    <2> DEFINE p == list[i]
    <2>4. p \in BombValues /\ rows[i] = BombRow(p)
      BY <1>2
    <2> HIDE DEF p
    <2>5. e[i][1] = p.owner % Modulus[1] /\ e[i][2] = p.cell[1] % Modulus[1] /\ e[i][3] = p.cell[2] % Modulus[1] /\ e[i][4] = p.radius % Modulus[1]
      <3>1. e[i][1] = rows[i][1] % Modulus[BombEntry[1]] /\ e[i][2] = rows[i][2] % Modulus[BombEntry[2]] /\ e[i][3] = rows[i][3] % Modulus[BombEntry[3]] /\ e[i][4] = rows[i][4] % Modulus[BombEntry[4]]
        BY <2>1, <2>3, Zenon
      <3>2. rows[i][1] = p.owner /\ rows[i][2] = p.cell[1] /\ rows[i][3] = p.cell[2] /\ rows[i][4] = p.radius
        BY <2>4, ListedRows, Zenon
      <3>. QED BY <2>2, <3>1, <3>2, Zenon
    <2>6. p.owner \in Byte /\ p.radius \in Byte /\ p.cell \in BoardCells
      BY <2>4, ListedParts, Fits, Zenon
    <2>9. p.cell[1] \in Byte /\ p.cell[2] \in Byte /\ p.cell = <<p.cell[1], p.cell[2]>>
      BY <2>6, Fits, Zenon
    <2>7. e[i][1] = p.owner /\ <<e[i][2], e[i][3]>> = p.cell /\ e[i][4] = p.radius
      BY <2>5, <2>6, <2>9, KeptIn, Zenon
    <2>8. read[i] = [owner |-> e[i][1], cell |-> <<e[i][2], e[i][3]>>, radius |-> e[i][4]]
      BY <1>5, Zenon DEF read, ReadBombs
    <2>. QED BY <2>4, <2>7, <2>8, ListedParts, Zenon DEF p
  <1>7. read = [i \in 1 .. l |-> read[i]]
    BY <1>5, Zenon DEF read, ReadBombs
  <1>. QED BY <1>3, <1>6, <1>7, Zenon DEF read, e, l

\* And those that are read are bombs.
LEMMA BombsRead ==
  ASSUME NEW n \in Nat, NEW at \in Nat \ {0}, NEW widths \in Seq({1, 2, 4}), NEW f, FieldsOf(f, widths),
         Room(widths, at, n, 4), Holds(widths, at, Same(BombEntry, n), n, 4), NEW l \in 0 .. n,
         BombsOk(ReadBombs(Entries(f, at, l, 4)))
  PROVE  ReadBombs(Entries(f, at, l, 4)) \in Seq(BombValues) /\ Len(ReadBombs(Entries(f, at, l, 4))) = l
  <1> DEFINE e == Entries(f, at, l, 4)
             read == ReadBombs(e)
  <1>1. /\ e = [i \in 1 .. l |-> [k \in 1 .. 4 |-> e[i][k]]]
        /\ \A i \in 1 .. l : \A k \in 1 .. 4 : e[i][k] \in 0 .. Modulus[BombEntry[k]] - 1
    <2>1. 4 \in Nat
      OBVIOUS
    <2>. QED BY <2>1, RowsRead, Zenon
  <1>2. BombsOk(read) /\ l \in Nat
    OBVIOUS
  <1> HIDE DEF e, read
  <1>3. DOMAIN e = 1 .. l
    BY <1>1, Zenon
  <1>4. DOMAIN read = 1 .. l /\ read = [i \in 1 .. l |-> read[i]]
    BY <1>3, Zenon DEF read, ReadBombs
  <1>5. ASSUME NEW i \in 1 .. l PROVE read[i] \in BombValues
    <2>1. BombEntry[1] = 1 /\ BombEntry[2] = 1 /\ BombEntry[3] = 1 /\ BombEntry[4] = 1
      BY DEF BombEntry
    <2>2. 1 \in 1 .. 4 /\ 2 \in 1 .. 4 /\ 3 \in 1 .. 4 /\ 4 \in 1 .. 4
      OBVIOUS
    <2>3. e[i][1] \in Byte /\ e[i][2] \in Byte /\ e[i][3] \in Byte /\ e[i][4] \in Byte
      BY <1>1, <2>1, <2>2, Zenon DEF Byte, Word
    <2>4. read[i] = [owner |-> e[i][1], cell |-> <<e[i][2], e[i][3]>>, radius |-> e[i][4]]
      BY <1>3, Zenon DEF read, ReadBombs
    <2>5. read[i].owner = e[i][1] /\ read[i].cell = <<e[i][2], e[i][3]>> /\ read[i].radius = e[i][4]
      BY <2>4
    <2>6. IsPlayerId(e[i][1]) /\ IsTileCell(<<e[i][2], e[i][3]>>) /\ e[i][4] # 0
      BY <1>2, <1>4, <2>5, Zenon DEF BombsOk
    <2>7. e[i][1] \in PlayerIds
      BY <2>3, <2>6, SeatOf, Zenon
    <2>8. <<e[i][2], e[i][3]>> \in BoardCells
      BY <2>3, <2>6, CellOf, Zenon
    <2>9. e[i][4] \in Byte \ {0}
      BY <2>3, <2>6, Zenon
    <2>. QED BY <2>4, <2>7, <2>8, <2>9 DEF BombValues
  <1>6. read \in [1 .. l -> BombValues]
    BY <1>4, <1>5, Zenon
  <1>7. read \in Seq(BombValues) /\ Len(read) = l
    BY <1>2, <1>6, FunctionIsSeq
  <1>. QED BY <1>7 DEF read, e

\* Powerups that are written are read again.
LEMMA PowerupsWritten ==
  ASSUME NEW n \in Nat, NEW at \in Nat \ {0}, NEW values \in Seq(Int), NEW widths, NEW f,
         NEW list \in Seq(PowerupValues), Len(list) <= n, Room(values, at, n, 3),
         Holds(values, at, PaddedRows(PowerupRows(list), n, Zeros(3)), n, 3), Holds(widths, at, Same(PowerupEntry, n), n, 3),
         CutBy(f, values, widths)
  PROVE  ReadPowerups(Entries(f, at, Len(list), 3)) = list
  <1> DEFINE l == Len(list)
             rows == PowerupRows(list)
             e == Entries(f, at, l, 3)
             read == ReadPowerups(e)
  <1>1. rows \in Seq(Seq(Int)) /\ Len(rows) = l /\ 3 \in Nat
    BY RowsOfLists
  <1>2. \A i \in 1 .. l : list[i] \in PowerupValues /\ rows[i] = PowerupRow(list[i])
    BY DEF PowerupRows
  <1>3. list = [i \in 1 .. l |-> list[i]]
    OBVIOUS
  <1> HIDE DEF rows, l, e, read
  <1>4. e = CutFirst(rows, PowerupEntry, l, 3)
    <2>1. Entries(f, at, Len(rows), 3) = CutFirst(rows, PowerupEntry, Len(rows), 3)
      BY <1>1, PaddedWritten DEF l, rows
    <2>. QED BY <1>1, <2>1, Zenon DEF e
  <1>5. DOMAIN e = 1 .. l
    BY <1>4, Zenon DEF CutFirst
  <1>6. ASSUME NEW i \in 1 .. l PROVE read[i] = list[i]
    <2>1. \A k \in 1 .. 3 : e[i][k] = rows[i][k] % Modulus[PowerupEntry[k]]
      BY <1>4, Zenon DEF CutFirst
    <2>2. PowerupEntry[1] = 1 /\ PowerupEntry[2] = 1 /\ PowerupEntry[3] = 1
      BY DEF PowerupEntry
    <2>3. 1 \in 1 .. 3 /\ 2 \in 1 .. 3 /\ 3 \in 1 .. 3
      OBVIOUS
    <2> DEFINE p == list[i]
    <2>4. p \in PowerupValues /\ rows[i] = PowerupRow(p)
      BY <1>2
    <2> HIDE DEF p
    <2>5. e[i][1] = p.kind % Modulus[1] /\ e[i][2] = p.cell[1] % Modulus[1] /\ e[i][3] = p.cell[2] % Modulus[1]
      <3>1. e[i][1] = rows[i][1] % Modulus[PowerupEntry[1]] /\ e[i][2] = rows[i][2] % Modulus[PowerupEntry[2]] /\ e[i][3] = rows[i][3] % Modulus[PowerupEntry[3]]
        BY <2>1, <2>3, Zenon
      <3>2. rows[i][1] = p.kind /\ rows[i][2] = p.cell[1] /\ rows[i][3] = p.cell[2]
        BY <2>4, ListedRows, Zenon
      <3>. QED BY <2>2, <3>1, <3>2, Zenon
    <2>6. p.kind \in Byte /\ p.cell \in BoardCells
      BY <2>4, ListedParts, Fits, Zenon
    <2>9. p.cell[1] \in Byte /\ p.cell[2] \in Byte /\ p.cell = <<p.cell[1], p.cell[2]>>
      BY <2>6, Fits, Zenon
    <2>7. e[i][1] = p.kind /\ <<e[i][2], e[i][3]>> = p.cell
      BY <2>5, <2>6, <2>9, KeptIn, Zenon
    <2>8. read[i] = [kind |-> e[i][1], cell |-> <<e[i][2], e[i][3]>>]
      BY <1>5, Zenon DEF read, ReadPowerups
    <2>. QED BY <2>4, <2>7, <2>8, ListedParts, Zenon DEF p
  <1>7. read = [i \in 1 .. l |-> read[i]]
    BY <1>5, Zenon DEF read, ReadPowerups
  <1>. QED BY <1>3, <1>6, <1>7, Zenon DEF read, e, l

\* And those that are read are powerups.
LEMMA PowerupsRead ==
  ASSUME NEW n \in Nat, NEW at \in Nat \ {0}, NEW widths \in Seq({1, 2, 4}), NEW f, FieldsOf(f, widths),
         Room(widths, at, n, 3), Holds(widths, at, Same(PowerupEntry, n), n, 3), NEW l \in 0 .. n,
         PowerupsOk(ReadPowerups(Entries(f, at, l, 3)))
  PROVE  ReadPowerups(Entries(f, at, l, 3)) \in Seq(PowerupValues) /\ Len(ReadPowerups(Entries(f, at, l, 3))) = l
  <1> DEFINE e == Entries(f, at, l, 3)
             read == ReadPowerups(e)
  <1>1. /\ e = [i \in 1 .. l |-> [k \in 1 .. 3 |-> e[i][k]]]
        /\ \A i \in 1 .. l : \A k \in 1 .. 3 : e[i][k] \in 0 .. Modulus[PowerupEntry[k]] - 1
    <2>1. 3 \in Nat
      OBVIOUS
    <2>. QED BY <2>1, RowsRead, Zenon
  <1>2. PowerupsOk(read) /\ l \in Nat
    OBVIOUS
  <1> HIDE DEF e, read
  <1>3. DOMAIN e = 1 .. l
    BY <1>1, Zenon
  <1>4. DOMAIN read = 1 .. l /\ read = [i \in 1 .. l |-> read[i]]
    BY <1>3, Zenon DEF read, ReadPowerups
  <1>5. ASSUME NEW i \in 1 .. l PROVE read[i] \in PowerupValues
    <2>1. PowerupEntry[1] = 1 /\ PowerupEntry[2] = 1 /\ PowerupEntry[3] = 1
      BY DEF PowerupEntry
    <2>2. 1 \in 1 .. 3 /\ 2 \in 1 .. 3 /\ 3 \in 1 .. 3
      OBVIOUS
    <2>3. e[i][1] \in Byte /\ e[i][2] \in Byte /\ e[i][3] \in Byte
      BY <1>1, <2>1, <2>2, Zenon DEF Byte, Word
    <2>4. read[i] = [kind |-> e[i][1], cell |-> <<e[i][2], e[i][3]>>]
      BY <1>3, Zenon DEF read, ReadPowerups
    <2>5. read[i].kind = e[i][1] /\ read[i].cell = <<e[i][2], e[i][3]>>
      BY <2>4
    <2>6. e[i][1] < PowerupTypes /\ IsTileCell(<<e[i][2], e[i][3]>>)
      BY <1>2, <1>4, <2>5, Zenon DEF PowerupsOk
    <2>7. e[i][1] \in 0 .. PowerupTypes - 1
      <3>1. e[i][1] \in Nat /\ PowerupTypes \in Nat
        BY <2>3, Fits, Sizes
      <3>. QED BY ONLY <2>6, <3>1
    <2>8. <<e[i][2], e[i][3]>> \in BoardCells
      BY <2>3, <2>6, CellOf, Zenon
    <2>. QED BY <2>4, <2>7, <2>8 DEF PowerupValues
  <1>6. read \in [1 .. l -> PowerupValues]
    BY <1>4, <1>5, Zenon
  <1>7. read \in Seq(PowerupValues) /\ Len(read) = l
    BY <1>2, <1>6, FunctionIsSeq
  <1>. QED BY <1>7 DEF read, e

\* The parts of a snapshot that can be sent.
LEMMA SnapshotParts ==
  ASSUME NEW m \in SnapshotMsgs
  PROVE  /\ m.type = "Snapshot" /\ m.matchId \in Long /\ m.tick \in Long /\ m.players \in Seq(PlayerValues)
         /\ m.bombs \in Seq(BombValues) /\ m.powerups \in Seq(PowerupValues)
         /\ Len(m.players) <= MaxPlayers /\ Len(m.bombs) <= MaxBombs /\ Len(m.powerups) <= MaxPowerups
         /\ Ascending(IdsOf(m.players)) /\ Ascending(KeysOf(m.bombs)) /\ Ascending(KeysOf(m.powerups))
         /\ m = [type |-> "Snapshot", matchId |-> m.matchId, tick |-> m.tick, players |-> m.players,
                 bombs |-> m.bombs, powerups |-> m.powerups]
  BY DEF SnapshotMsgs, IdsOf, KeysOf

\* And what passes has them.
LEMMA SnapshotFrom ==
  ASSUME NEW matchId \in Long, NEW tick \in Long, NEW p \in Seq(PlayerValues), NEW b \in Seq(BombValues),
         NEW u \in Seq(PowerupValues), Len(p) <= MaxPlayers, Len(b) <= MaxBombs, Len(u) <= MaxPowerups,
         PlayersOk(p), BombsOk(b), PowerupsOk(u), NEW m,
         m = [type |-> "Snapshot", matchId |-> matchId, tick |-> tick, players |-> p, bombs |-> b, powerups |-> u]
  PROVE  m \in SnapshotMsgs
  <1>1. Ascending(IdsOf(p)) /\ Ascending(KeysOf(b)) /\ Ascending(KeysOf(u))
    BY Zenon DEF PlayersOk, BombsOk, PowerupsOk
  <1>2. m.players = p /\ m.bombs = b /\ m.powerups = u
    OBVIOUS
  <1>3. m \in [type : {"Snapshot"}, matchId : Long, tick : Long, players : Seq(PlayerValues),
               bombs : Seq(BombValues), powerups : Seq(PowerupValues)]
    OBVIOUS
  <1>. QED BY <1>1, <1>2, <1>3, Zenon DEF SnapshotMsgs, IdsOf, KeysOf

\* What a receiver asks of lists, those that can be sent have.
LEMMA ListedOk ==
  /\ \A p \in Seq(PlayerValues) : Ascending(IdsOf(p)) => PlayersOk(p)
  /\ \A b \in Seq(BombValues) : Ascending(KeysOf(b)) => BombsOk(b)
  /\ \A u \in Seq(PowerupValues) : Ascending(KeysOf(u)) => PowerupsOk(u)
  <1>1. \A S : \A list \in Seq(S) : \A i \in DOMAIN list : list[i] \in S
    OBVIOUS
  <1>2. \A n \in PlayerIds : IsPlayerId(n)
    BY Sizes DEF PlayerIds, IsPlayerId
  <1>3. \A n \in 0 .. PowerupTypes - 1 : n < PowerupTypes
    BY Sizes
  <1>4. ASSUME NEW p \in Seq(PlayerValues), Ascending(IdsOf(p)) PROVE PlayersOk(p)
    BY <1>1, <1>2, <1>4, ListedParts, Zenon DEF PlayersOk
  <1>5. ASSUME NEW b \in Seq(BombValues), Ascending(KeysOf(b)) PROVE BombsOk(b)
    <2>1. ASSUME NEW i \in DOMAIN b PROVE IsPlayerId(b[i].owner) /\ IsTileCell(b[i].cell) /\ b[i].radius # 0
      <3>1. b[i] \in BombValues
        BY <1>1, Zenon
      <3>2. b[i].owner \in PlayerIds /\ b[i].cell \in BoardCells /\ b[i].radius \in Byte \ {0}
        BY <3>1, ListedParts, Zenon
      <3>. QED BY <1>2, <3>2, Fits, Zenon
    <2>. QED BY <1>5, <2>1, Zenon DEF BombsOk
  <1>6. ASSUME NEW u \in Seq(PowerupValues), Ascending(KeysOf(u)) PROVE PowerupsOk(u)
    <2>1. ASSUME NEW i \in DOMAIN u PROVE u[i].kind < PowerupTypes /\ IsTileCell(u[i].cell)
      <3>1. u[i] \in PowerupValues
        BY <1>1, Zenon
      <3>2. u[i].kind \in 0 .. PowerupTypes - 1 /\ u[i].cell \in BoardCells
        BY <3>1, ListedParts, Zenon
      <3>. QED BY <1>3, <3>2, Fits, Zenon
    <2>. QED BY <1>6, <2>1, Zenon DEF PowerupsOk
  <1>. QED BY <1>4, <1>5, <1>6, Zenon

\* The places of a snapshot's lists.
LEMMA SnapshotPlaces ==
  /\ MaxPlayers \in Nat /\ MaxBombs \in Nat /\ MaxPowerups \in Nat /\ 3 \in Nat /\ 4 \in Nat
  /\ MaxPlayers * 4 \in Nat /\ MaxBombs * 4 \in Nat /\ MaxPowerups * 3 \in Nat
  /\ 6 + 4 * MaxPlayers = 6 + MaxPlayers * 4
  /\ 6 + 4 * MaxPlayers + 4 * MaxBombs = 6 + MaxPlayers * 4 + MaxBombs * 4
  /\ \A v : Len(v) = 5 + MaxPlayers * 4 + MaxBombs * 4 + MaxPowerups * 3 =>
       /\ Room(v, 6, MaxPlayers, 4) /\ Room(v, 6 + MaxPlayers * 4, MaxBombs, 4)
       /\ Room(v, 6 + MaxPlayers * 4 + MaxBombs * 4, MaxPowerups, 3)
  /\ 6 \in Nat \ {0} /\ 6 + MaxPlayers * 4 \in Nat \ {0} /\ 6 + MaxPlayers * 4 + MaxBombs * 4 \in Nat \ {0}
  BY Sizes, SMTT(40) DEF Room

\* A Snapshot comes as it was sent.
LEMMA SnapshotTrips == \A m \in SnapshotMsgs : Trips(m)
  <1> SUFFICES ASSUME NEW m \in SnapshotMsgs PROVE Trips(m)
    OBVIOUS
  <1> DEFINE h == <<m.matchId, m.tick, Len(m.players), Len(m.bombs), Len(m.powerups)>>
             widths == <<4, 4, 1, 1, 1>>
             a == Padded(PlayerRows(m.players), MaxPlayers, Zeros(4))
             b == Padded(BombRows(m.bombs), MaxBombs, Zeros(4))
             c == Padded(PowerupRows(m.powerups), MaxPowerups, Zeros(3))
             tops == PaddedRows(PlayerRows(m.players), MaxPlayers, Zeros(4))
             middles == PaddedRows(BombRows(m.bombs), MaxBombs, Zeros(4))
             bottoms == PaddedRows(PowerupRows(m.powerups), MaxPowerups, Zeros(3))
             v == Values(m)
             w == Layout(m.type)
             f == Serialize(m)
             size == MaxPlayers * 4
             more == MaxBombs * 4
             most == MaxPowerups * 3
  <1>1. /\ m.type = "Snapshot" /\ m.matchId \in Long /\ m.tick \in Long /\ m.players \in Seq(PlayerValues)
        /\ m.bombs \in Seq(BombValues) /\ m.powerups \in Seq(PowerupValues)
    BY SnapshotParts, Zenon
  <1>2. Len(m.players) <= MaxPlayers /\ Len(m.bombs) <= MaxBombs /\ Len(m.powerups) <= MaxPowerups
    BY SnapshotParts, Zenon
  <1>3. /\ Len(PlayerRows(m.players)) = Len(m.players) /\ Len(BombRows(m.bombs)) = Len(m.bombs)
        /\ Len(PowerupRows(m.powerups)) = Len(m.powerups)
    BY <1>1, RowsOfLists, Zenon
  <1>4. v = h \o a \o b \o c
    <2>1. DOMAIN m.players = 1 .. Len(m.players) /\ DOMAIN m.bombs = 1 .. Len(m.bombs)
          /\ DOMAIN m.powerups = 1 .. Len(m.powerups)
      BY <1>1
    <2>2. v = WriteSnapshot(m)
      BY <1>1 DEF Values, Handshake, RoundControl
    <2> DEFINE players == [i \in DOMAIN m.players |-> PlayerRow(m.players[i])]
               bombs == [i \in DOMAIN m.bombs |-> BombRow(m.bombs[i])]
               powerups == [i \in DOMAIN m.powerups |-> PowerupRow(m.powerups[i])]
    <2>3. WriteSnapshot(m) = <<m.matchId, m.tick, Len(players), Len(bombs), Len(powerups)>>
                             \o Padded(players, MaxPlayers, Zeros(4)) \o Padded(bombs, MaxBombs, Zeros(4))
                             \o Padded(powerups, MaxPowerups, Zeros(3))
      BY Zenon DEF WriteSnapshot, PlayerRow, BombRow, PowerupRow
    <2>4. players = PlayerRows(m.players) /\ bombs = BombRows(m.bombs) /\ powerups = PowerupRows(m.powerups)
      BY <2>1, Zenon DEF PlayerRows, BombRows, PowerupRows
    <2> HIDE DEF players, bombs, powerups, v
    <2>. QED BY <1>3, <2>2, <2>3, <2>4, Zenon
  <1>5. m.type \in MsgTypes
    BY <1>1 DEF MsgTypes
  <1>6. Len(m.players) \in Byte /\ Len(m.bombs) \in Byte /\ Len(m.powerups) \in Byte
    <2>1. Len(m.players) \in Nat /\ Len(m.bombs) \in Nat /\ Len(m.powerups) \in Nat
      BY <1>1, LenOfAny, Zenon
    <2>2. MaxPlayers <= 255 /\ Modulus[1] > 255 /\ MaxBombs < Modulus[1] /\ MaxPowerups < Modulus[1]
          /\ MaxPlayers \in Nat /\ MaxBombs \in Nat /\ MaxPowerups \in Nat /\ Modulus[1] \in Nat
      BY ONLY Sizes
    <2>. QED BY ONLY <1>2, <2>1, <2>2 DEF Byte
  <1>7. /\ h \in Seq(Int) /\ Len(h) = 5 /\ h[1] = m.matchId /\ h[2] = m.tick /\ h[3] = Len(m.players)
        /\ h[4] = Len(m.bombs) /\ h[5] = Len(m.powerups)
    <2>1. m.matchId \in Nat /\ m.tick \in Nat /\ Len(m.players) \in Nat /\ Len(m.bombs) \in Nat /\ Len(m.powerups) \in Nat
      BY <1>1, <1>6, Fits, Zenon
    <2>2. h = <<m.matchId, m.tick, Len(m.players), Len(m.bombs), Len(m.powerups)>>
      OBVIOUS
    <2> HIDE DEF h
    <2>. QED BY ONLY <2>1, <2>2
  <1>8. Len(widths) = 5 /\ widths[1] = 4 /\ widths[2] = 4 /\ widths[3] = 1 /\ widths[4] = 1 /\ widths[5] = 1
    OBVIOUS
  <1>9. Table(a, tops, MaxPlayers, 4) /\ Table(b, middles, MaxBombs, 4) /\ Table(c, bottoms, MaxPowerups, 3)
    <2>1. /\ Zeros(4) \in Seq(Int) /\ Len(Zeros(4)) = 4 /\ Len(Zeros(4)) # 0
          /\ Zeros(3) \in Seq(Int) /\ Len(Zeros(3)) = 3 /\ Len(Zeros(3)) # 0
      <3>1. 4 \in Nat \ {0} /\ 3 \in Nat \ {0}
        OBVIOUS
      <3>. QED BY <3>1, ZerosAre, Zenon
    <2>2. Table(Padded(PlayerRows(m.players), MaxPlayers, Zeros(4)), tops, MaxPlayers, Len(Zeros(4)))
      <3>1. /\ PlayerRows(m.players) \in Seq(Seq(Int)) /\ Len(PlayerRows(m.players)) <= MaxPlayers
            /\ \A i \in 1 .. Len(PlayerRows(m.players)) : Len(PlayerRows(m.players)[i]) = Len(Zeros(4))
        BY <1>1, <1>2, <1>3, <2>1, RowsOfLists, Zenon
      <3>. QED BY <2>1, <3>1, SnapshotPlaces, PaddedTable, Zenon
    <2>3. Table(Padded(BombRows(m.bombs), MaxBombs, Zeros(4)), middles, MaxBombs, Len(Zeros(4)))
      <3>1. /\ BombRows(m.bombs) \in Seq(Seq(Int)) /\ Len(BombRows(m.bombs)) <= MaxBombs
            /\ \A i \in 1 .. Len(BombRows(m.bombs)) : Len(BombRows(m.bombs)[i]) = Len(Zeros(4))
        BY <1>1, <1>2, <1>3, <2>1, RowsOfLists, Zenon
      <3>. QED BY <2>1, <3>1, SnapshotPlaces, PaddedTable, Zenon
    <2>4. Table(Padded(PowerupRows(m.powerups), MaxPowerups, Zeros(3)), bottoms, MaxPowerups, Len(Zeros(3)))
      <3>1. /\ PowerupRows(m.powerups) \in Seq(Seq(Int)) /\ Len(PowerupRows(m.powerups)) <= MaxPowerups
            /\ \A i \in 1 .. Len(PowerupRows(m.powerups)) : Len(PowerupRows(m.powerups)[i]) = Len(Zeros(3))
        BY <1>1, <1>2, <1>3, <2>1, RowsOfLists, Zenon
      <3>. QED BY <2>1, <3>1, SnapshotPlaces, PaddedTable, Zenon
    <2>. QED BY <2>1, <2>2, <2>3, <2>4, Zenon
  <1>10. /\ size \in Nat /\ more \in Nat /\ most \in Nat
         /\ MaxPlayers \in Nat /\ MaxBombs \in Nat /\ MaxPowerups \in Nat /\ 3 \in Nat /\ 4 \in Nat
    BY SnapshotPlaces, Zenon
  <1> HIDE DEF h, widths, a, b, c, tops, middles, bottoms, v, w, f, size, more, most
  <1>11. ThriceExtended(v, h, tops, MaxPlayers, 4, middles, MaxBombs, 4, bottoms, MaxPowerups, 3)
    <2>1. ThriceExtended(h \o a \o b \o c, h, tops, MaxPlayers, 4, middles, MaxBombs, 4, bottoms, MaxPowerups, 3)
      BY <1>7, <1>9, <1>10, ThreeTables, Zenon
    <2>. QED BY <1>4, <2>1, Zenon
  <1>12. ThriceExtended(w, widths, Same(PlayerEntry, MaxPlayers), MaxPlayers, 4,
                        Same(BombEntry, MaxBombs), MaxBombs, 4, Same(PowerupEntry, MaxPowerups), MaxPowerups, 3)
    BY <1>1, SnapshotLayout DEF w, widths
  <1>13. /\ Begins(v, h) /\ Len(v) = 5 + size + more + most /\ v \in Seq(Int)
         /\ Holds(v, 6, tops, MaxPlayers, 4) /\ Holds(v, 6 + size, middles, MaxBombs, 4)
         /\ Holds(v, 6 + size + more, bottoms, MaxPowerups, 3)
         /\ Begins(w, widths) /\ Len(w) = 5 + size + more + most
         /\ Holds(w, 6, Same(PlayerEntry, MaxPlayers), MaxPlayers, 4)
         /\ Holds(w, 6 + size, Same(BombEntry, MaxBombs), MaxBombs, 4)
         /\ Holds(w, 6 + size + more, Same(PowerupEntry, MaxPowerups), MaxPowerups, 3)
    <2>1. 5 + 1 = 6
      OBVIOUS
    <2>. QED BY <1>7, <1>8, <1>11, <1>12, <2>1, Zenon DEF ThriceExtended, Begins, size, more, most
  <1>14. FieldsOf(f, w) /\ CutBy(f, v, w)
    <2>1. Len(v) = Len(w)
      BY <1>13, Zenon
    <2>. QED BY <1>5, <1>13, <2>1, Written, Zenon DEF CutBy, f, v, w
  <1>15. /\ f[1] = m.matchId /\ f[2] = m.tick /\ f[3] = Len(m.players) /\ f[4] = Len(m.bombs)
         /\ f[5] = Len(m.powerups)
    <2>1. ASSUME NEW i \in 1 .. 5 PROVE f[i] = h[i] % Modulus[widths[i]]
      <3>1. i \in 1 .. Len(v) /\ i \in 1 .. Len(h) /\ i \in 1 .. Len(widths)
        <4>1. Len(v) = 5 + size + more + most /\ Len(h) = 5 /\ Len(widths) = 5
          BY <1>7, <1>8, <1>13, Zenon
        <4>. QED BY ONLY <1>10, <4>1
      <3>. QED BY <1>13, <1>14, <3>1, Zenon DEF CutBy, Begins
    <2>2. /\ h[1] % Modulus[4] = h[1] /\ h[2] % Modulus[4] = h[2] /\ h[3] % Modulus[1] = h[3]
          /\ h[4] % Modulus[1] = h[4] /\ h[5] % Modulus[1] = h[5]
      <3>1. h[1] \in Long /\ h[2] \in Long /\ h[3] \in Byte /\ h[4] \in Byte /\ h[5] \in Byte
        BY <1>1, <1>6, <1>7, Zenon
      <3>. QED BY <3>1, KeptIn, Zenon
    <2>. QED BY <1>7, <1>8, <2>1, <2>2
  <1>16. /\ Room(v, 6, MaxPlayers, 4) /\ Room(v, 6 + size, MaxBombs, 4) /\ Room(v, 6 + size + more, MaxPowerups, 3)
         /\ 6 \in Nat \ {0} /\ 6 + size \in Nat \ {0} /\ 6 + size + more \in Nat \ {0}
    BY <1>13, SnapshotPlaces, Zenon DEF size, more, most
  <1>17. ReadPlayers(Entries(f, 6, Len(m.players), 4)) = m.players
    BY <1>1, <1>2, <1>10, <1>13, <1>14, <1>16, PlayersWritten DEF tops
  <1>18. ReadBombs(Entries(f, 6 + size, Len(m.bombs), 4)) = m.bombs
    <2> DEFINE at == 6 + size
    <2>1. Room(v, at, MaxBombs, 4) /\ at \in Nat \ {0} /\ Holds(v, at, middles, MaxBombs, 4)
          /\ Holds(w, at, Same(BombEntry, MaxBombs), MaxBombs, 4)
      BY <1>13, <1>16, Zenon
    <2> HIDE DEF at
    <2>2. ReadBombs(Entries(f, at, Len(m.bombs), 4)) = m.bombs
      BY <1>1, <1>2, <1>10, <1>13, <1>14, <2>1, BombsWritten DEF middles
    <2>. QED BY <2>2 DEF at
  <1>19. ReadPowerups(Entries(f, 6 + size + more, Len(m.powerups), 3)) = m.powerups
    <2> DEFINE at == 6 + size + more
    <2>1. Room(v, at, MaxPowerups, 3) /\ at \in Nat \ {0} /\ Holds(v, at, bottoms, MaxPowerups, 3)
          /\ Holds(w, at, Same(PowerupEntry, MaxPowerups), MaxPowerups, 3)
      BY <1>13, <1>16, Zenon
    <2> HIDE DEF at
    <2>2. ReadPowerups(Entries(f, at, Len(m.powerups), 3)) = m.powerups
      BY <1>1, <1>2, <1>10, <1>13, <1>14, <2>1, PowerupsWritten DEF bottoms
    <2>. QED BY <2>2 DEF at
  <1>20. Deserialize(m.type, f) = m
    <2> DEFINE read == [type |-> "Snapshot", matchId |-> f[1], tick |-> f[2],
                        players |-> m.players, bombs |-> m.bombs, powerups |-> m.powerups]
    <2>1. /\ m.players = ReadPlayers(Entries(f, 6, f[3], 4))
          /\ m.bombs = ReadBombs(Entries(f, 6 + 4 * MaxPlayers, f[4], 4))
          /\ m.powerups = ReadPowerups(Entries(f, 6 + 4 * MaxPlayers + 4 * MaxBombs, f[5], 3))
      BY <1>15, <1>17, <1>18, <1>19, SnapshotPlaces, Zenon DEF size, more
    <2>2. f[3] <= MaxPlayers /\ f[4] <= MaxBombs /\ f[5] <= MaxPowerups
      BY <1>2, <1>15, Zenon
    <2>3. Deserialize("Snapshot", f) =
            OrReject(PlayersOk(m.players) /\ BombsOk(m.bombs) /\ PowerupsOk(m.powerups), read)
      BY <2>1, <2>2, SnapshotRead, Zenon
    <2>4. PlayersOk(m.players) /\ BombsOk(m.bombs) /\ PowerupsOk(m.powerups)
      BY SnapshotParts, ListedOk, Zenon
    <2>5. read = m
      BY <1>15, SnapshotParts, Zenon
    <2> HIDE DEF read
    <2>6. Deserialize("Snapshot", f) = read
      BY <2>3, <2>4, Zenon DEF OrReject
    <2>. QED BY <1>1, <2>5, <2>6, Zenon
  <1>21. Shortened(m) = m
    BY <1>1 DEF Shortened
  <1>. QED BY <1>14, <1>20, <1>21, Zenon DEF Trips, f, w

\* And one that is read has players, bombs and powerups that there can be, in their order.
LEMMA SnapshotReads == Reads("Snapshot", SnapshotMsgs)
  <1> SUFFICES ASSUME NEW f, FieldsOf(f, Layout("Snapshot")), Deserialize("Snapshot", f) # Rejected
               PROVE  LET m == Deserialize("Snapshot", f)
                      IN  m \in SnapshotMsgs /\ m.type = "Snapshot" /\ Shortened(m) = m
    BY ReadsIf, Zenon
  <1> DEFINE m == Deserialize("Snapshot", f)
             widths == <<4, 4, 1, 1, 1>>
             w == Layout("Snapshot")
             size == MaxPlayers * 4
             more == MaxBombs * 4
             most == MaxPowerups * 3
             p == ReadPlayers(Entries(f, 6, f[3], 4))
             b == ReadBombs(Entries(f, 6 + 4 * MaxPlayers, f[4], 4))
             u == ReadPowerups(Entries(f, 6 + 4 * MaxPlayers + 4 * MaxBombs, f[5], 3))
  <1>1. /\ size \in Nat /\ more \in Nat /\ most \in Nat
        /\ MaxPlayers \in Nat /\ MaxBombs \in Nat /\ MaxPowerups \in Nat /\ 3 \in Nat /\ 4 \in Nat
    BY SnapshotPlaces, Zenon
  <1>2. Len(widths) = 5 /\ widths[1] = 4 /\ widths[2] = 4 /\ widths[3] = 1 /\ widths[4] = 1 /\ widths[5] = 1
    OBVIOUS
  <1>3. /\ w \in Seq({1, 2, 4})
        /\ ThriceExtended(w, widths, Same(PlayerEntry, MaxPlayers), MaxPlayers, 4,
                          Same(BombEntry, MaxBombs), MaxBombs, 4, Same(PowerupEntry, MaxPowerups), MaxPowerups, 3)
    BY SnapshotLayout, Zenon
  <1>4. FieldsOf(f, w) /\ m # Rejected
    OBVIOUS
  <1>5. m = IF f[3] <= MaxPlayers /\ f[4] <= MaxBombs /\ f[5] <= MaxPowerups
            THEN OrReject(PlayersOk(p) /\ BombsOk(b) /\ PowerupsOk(u),
                          [type |-> "Snapshot", matchId |-> f[1], tick |-> f[2],
                           players |-> p, bombs |-> b, powerups |-> u])
            ELSE Rejected
    BY SnapshotRead, Zenon
  <1> HIDE DEF m, widths, w, size, more, most, p, b, u
  <1>6. /\ f[3] <= MaxPlayers /\ f[4] <= MaxBombs /\ f[5] <= MaxPowerups
        /\ PlayersOk(p) /\ BombsOk(b) /\ PowerupsOk(u)
        /\ m = [type |-> "Snapshot", matchId |-> f[1], tick |-> f[2], players |-> p, bombs |-> b, powerups |-> u]
    BY <1>4, <1>5, Zenon DEF OrReject
  <1>7. /\ Begins(w, widths) /\ Len(w) = 5 + size + more + most
        /\ Holds(w, 6, Same(PlayerEntry, MaxPlayers), MaxPlayers, 4)
        /\ Holds(w, 6 + size, Same(BombEntry, MaxBombs), MaxBombs, 4)
        /\ Holds(w, 6 + size + more, Same(PowerupEntry, MaxPowerups), MaxPowerups, 3)
    <2>1. 5 + 1 = 6
      OBVIOUS
    <2>. QED BY <1>2, <1>3, <2>1, Zenon DEF ThriceExtended, size, more, most
  <1>8. f[1] \in Long /\ f[2] \in Long /\ f[3] \in Byte /\ f[4] \in Byte /\ f[5] \in Byte
    <2>1. ASSUME NEW i \in 1 .. 5 PROVE f[i] \in 0 .. Modulus[widths[i]] - 1
      <3>1. i \in 1 .. Len(w) /\ i \in 1 .. Len(widths)
        <4>1. Len(w) = 5 + size + more + most /\ Len(widths) = 5
          BY <1>2, <1>7, Zenon
        <4>. QED BY ONLY <1>1, <4>1
      <3>. QED BY <1>4, <1>7, <3>1, Zenon DEF FieldsOf, Begins
    <2>. QED BY <1>2, <2>1 DEF Byte, Long
  <1>9. f[3] \in 0 .. MaxPlayers /\ f[4] \in 0 .. MaxBombs /\ f[5] \in 0 .. MaxPowerups
    <2>1. f[3] \in Nat /\ f[4] \in Nat /\ f[5] \in Nat
      BY <1>8, Fits, Zenon
    <2>2. f[3] <= MaxPlayers /\ f[4] <= MaxBombs /\ f[5] <= MaxPowerups
      BY <1>6, Zenon
    <2>. QED BY ONLY <1>1, <2>1, <2>2
  <1>10. /\ Room(w, 6, MaxPlayers, 4) /\ Room(w, 6 + size, MaxBombs, 4) /\ Room(w, 6 + size + more, MaxPowerups, 3)
         /\ 6 \in Nat \ {0} /\ 6 + size \in Nat \ {0} /\ 6 + size + more \in Nat \ {0}
    BY <1>7, SnapshotPlaces, Zenon DEF size, more, most
  <1>11. p \in Seq(PlayerValues) /\ Len(p) = f[3]
    BY <1>1, <1>3, <1>4, <1>6, <1>7, <1>9, <1>10, PlayersRead DEF p
  <1>12. b \in Seq(BombValues) /\ Len(b) = f[4]
    <2> DEFINE at == 6 + size
    <2>1. Room(w, at, MaxBombs, 4) /\ at \in Nat \ {0} /\ Holds(w, at, Same(BombEntry, MaxBombs), MaxBombs, 4)
          /\ b = ReadBombs(Entries(f, at, f[4], 4))
      BY <1>7, <1>10, SnapshotPlaces, Zenon DEF b, size
    <2> HIDE DEF at
    <2>. QED BY <1>1, <1>3, <1>4, <1>6, <1>9, <2>1, BombsRead
  <1>13. u \in Seq(PowerupValues) /\ Len(u) = f[5]
    <2> DEFINE at == 6 + size + more
    <2>1. Room(w, at, MaxPowerups, 3) /\ at \in Nat \ {0} /\ Holds(w, at, Same(PowerupEntry, MaxPowerups), MaxPowerups, 3)
          /\ u = ReadPowerups(Entries(f, at, f[5], 3))
      BY <1>7, <1>10, SnapshotPlaces, Zenon DEF u, size, more
    <2> HIDE DEF at
    <2>. QED BY <1>1, <1>3, <1>4, <1>6, <1>9, <2>1, PowerupsRead
  <1>14. m \in SnapshotMsgs
    <2>1. Len(p) <= MaxPlayers /\ Len(b) <= MaxBombs /\ Len(u) <= MaxPowerups
      BY <1>6, <1>11, <1>12, <1>13, Zenon
    <2>. QED BY <1>6, <1>8, <1>11, <1>12, <1>13, <2>1, SnapshotFrom
  <1>15. m.type = "Snapshot" /\ Shortened(m) = m
    BY <1>6 DEF Shortened
  <1>. QED BY <1>14, <1>15, Zenon DEF m

-----------------------------------------------------------------------------
(* All messages. *)

\* Whatever can be sent is read as it was sent, with its names cut.
LEMMA AllTrip == \A m \in Sendable : Trips(m)
  <1> SUFFICES ASSUME NEW m \in Sendable PROVE Trips(m)
    OBVIOUS
  <1>1. m \in MatchIdMsgs => m.type = "MatchLoaded" \/ m.type = "MatchCancelled"
    BY DEF MatchIdMsgs
  <1>. QED BY <1>1, WelcomeTrips, RejectTrips, LevelInfoTrips, LobbyReadyTrips, MatchLoadedTrips, MatchCancelledTrips,
              MatchStartTrips, CorrectionTrips, BombPlacedTrips, HelloTrips, MatchResultTrips, InputTrips,
              LobbyTrips, SnapshotTrips, ExplosionTrips, Zenon DEF Sendable

\* The messages that can be sent as they are.
Sound == {m \in Sendable : Shortened(m) = m}

\* Whatever is read is one of them, of the type that the header gives.
LEMMA AllRead ==
  ASSUME NEW type \in MsgTypes, NEW f, FieldsOf(f, Layout(type)), Deserialize(type, f) # Rejected
  PROVE  Deserialize(type, f) \in Sound /\ Deserialize(type, f).type = type
  <1> DEFINE m == Deserialize(type, f)
  <1>1. ASSUME NEW kind \in SUBSET Sendable, Reads(type, kind) PROVE m \in Sound /\ m.type = type
    <2>1. m \in {d \in kind : d.type = type /\ Shortened(d) = d}
      BY <1>1, Zenon DEF Reads
    <2> HIDE DEF m
    <2>. QED BY <2>1, Zenon DEF Sound
  <1>2. /\ WelcomeMsgs \subseteq Sendable /\ RejectMsgs \subseteq Sendable /\ LevelInfoMsgs \subseteq Sendable
        /\ LobbyReadyMsgs \subseteq Sendable /\ MatchIdMsgs \subseteq Sendable /\ MatchStartMsgs \subseteq Sendable
        /\ CorrectionMsgs \subseteq Sendable /\ BombPlacedMsgs \subseteq Sendable /\ HelloMsgs \subseteq Sendable
        /\ DrawMsgs \union WonMsgs \subseteq Sendable /\ InputMsgs \subseteq Sendable
        /\ LobbyStateMsgs \subseteq Sendable /\ SnapshotMsgs \subseteq Sendable /\ ExplosionMsgs \subseteq Sendable
    BY Zenon DEF Sendable
  <1>3. type \in {"Welcome", "Reject", "LevelInfo", "LobbyReady", "MatchLoaded", "MatchCancelled", "MatchStart",
                  "Correction", "BombPlaced", "Hello", "MatchResult", "Input", "LobbyState", "Snapshot",
                  "ExplosionResolved"}
    BY DEF MsgTypes, ControlMsgs, Handshake, RoundControl
  <1> HIDE DEF m
  <1>4. \E kind \in SUBSET Sendable : Reads(type, kind)
    BY <1>2, <1>3, WelcomeReads, RejectReads, LevelInfoReads, LobbyReadyReads, MatchLoadedReads, MatchCancelledReads,
       MatchStartReads, CorrectionReads, BombPlacedReads, HelloReads, MatchResultReads, InputReads, LobbyReads,
       SnapshotReads, ExplosionReads, Zenon
  <1>. QED BY <1>1, <1>4, Zenon DEF m

-----------------------------------------------------------------------------
(* What the two programs send can be sent. *)

\* Ticks, positions and names fit their fields.
LEMMA SentFits ==
  /\ \A t \in Ticks : t \in Long \ {0} /\ t + 1 \in Long /\ t + UnlockDelayTicks \in Long \ {0}
  /\ Positions \subseteq Short /\ Names \subseteq Seq(Chars)
  /\ 1 \in Long \ {0} /\ 0 \in Long /\ 0 \in Byte /\ 1 \in Byte \ {0} /\ 0 \in Word /\ 9 \in Word
  /\ TickRate \in Word \ {0} /\ 0 \in PlayerIds /\ 0 \in 0 .. PowerupTypes - 1 /\ 0 \in Short
  <1>1. ASSUME NEW t \in Ticks PROVE t \in Long \ {0} /\ t + 1 \in Long /\ t + UnlockDelayTicks \in Long \ {0}
    <2>1. t \in Nat \ {0} /\ UnlockDelayTicks \in Nat /\ t + UnlockDelayTicks < Modulus[4] /\ t + 1 < Modulus[4]
      BY TicksAssumption, FieldsAssumption, Zenon
    <2>2. Modulus[4] \in Nat
      BY Sizes, Zenon
    <2>. QED BY ONLY <2>1, <2>2 DEF Long
  <1>2. Positions \subseteq Short
    BY FieldsAssumption DEF Short
  <1>3. Names \subseteq Seq(Chars)
    BY FieldsAssumption, Zenon DEF Chars
  <1>4. /\ 1 \in Long \ {0} /\ 0 \in Long /\ 0 \in Byte /\ 1 \in Byte \ {0} /\ 0 \in Word /\ 9 \in Word
        /\ 0 \in PlayerIds /\ 0 \in 0 .. PowerupTypes - 1 /\ 0 \in Short
    BY Sizes DEF Long, Byte, Word, PlayerIds, Short
  <1>5. TickRate \in Word \ {0}
    <2>1. TickRate \in Nat \ {0} /\ TickRate < Modulus[2]
      BY TicksAssumption, FieldsAssumption, Zenon
    <2>2. Modulus[2] \in Nat
      BY Sizes, Zenon
    <2>. QED BY ONLY <2>1, <2>2 DEF Word
  <1>. QED BY <1>1, <1>2, <1>3, <1>4, <1>5, Zenon

\* Welcomes and rejections.
LEMMA WelcomesSent == Welcomes \subseteq WelcomeMsgs /\ Rejects \subseteq RejectMsgs
  <1>1. Welcomes \subseteq WelcomeMsgs
    BY SentFits DEF Welcomes, WelcomeMsgs, ProtocolVersion
  <1>2. Rejects \subseteq RejectMsgs
    BY SentFits DEF Rejects, RejectMsgs, ProtocolVersion, VersionMismatch, Reasons
  <1>. QED BY <1>1, <1>2

\* The start of a match, its level, its end and its cancellation.
LEMMA RoundSent ==
  /\ LevelInfos \subseteq LevelInfoMsgs /\ MatchStarts \subseteq MatchStartMsgs /\ Cancellations \subseteq MatchIdMsgs
  /\ MatchesLoaded \subseteq MatchIdMsgs /\ LobbyReadies \subseteq LobbyReadyMsgs
  /\ MatchResults \subseteq DrawMsgs \union WonMsgs
  <1>1. LevelInfos \subseteq LevelInfoMsgs
    BY SentFits DEF LevelInfos, LevelInfoMsgs
  <1>2. MatchStarts \subseteq MatchStartMsgs
    <2>1. ASSUME NEW t \in Ticks PROVE t + UnlockDelayTicks \in Long \ {0} /\ t + UnlockDelayTicks <= t + UnlockDelayTicks
      BY SentFits DEF Long
    <2>. QED BY <2>1, SentFits DEF MatchStarts, MatchStartMsgs
  <1>3. Cancellations \subseteq MatchIdMsgs /\ MatchesLoaded \subseteq MatchIdMsgs
    BY SentFits DEF Cancellations, MatchesLoaded, MatchIdMsgs
  <1>4. LobbyReadies \subseteq LobbyReadyMsgs
    BY DEF LobbyReadies, LobbyReadyMsgs
  <1>5. ASSUME NEW n \in Names PROVE WinnerDisplayName(n) \in Seq(Chars) \ {<<>>}
    <2>1. n \in Seq(Chars)
      BY SentFits, Zenon
    <2>2. <<80, 108>> \in Seq(Chars) /\ <<80, 108>> # <<>>
      <3>1. 80 \in Chars /\ 108 \in Chars
        BY Sizes DEF Chars
      <3>. QED BY <3>1
    <2>. QED BY <2>1, <2>2, Zenon DEF WinnerDisplayName
  <1>6. MatchResults \subseteq DrawMsgs \union WonMsgs
    BY <1>5, SentFits DEF MatchResults, DrawMsgs, WonMsgs
  <1>. QED BY <1>1, <1>2, <1>3, <1>4, <1>6

\* Hellos and corrections.
LEMMA HellosSent == Hellos \subseteq HelloMsgs /\ Corrections \subseteq CorrectionMsgs
  <1>1. Hellos \subseteq HelloMsgs
    BY SentFits DEF Hellos, HelloMsgs, ProtocolVersion
  <1>2. Corrections \subseteq CorrectionMsgs
    BY SentFits DEF Corrections, CorrectionMsgs
  <1>. QED BY <1>1, <1>2

\* Inputs: the last of them, as many as there are and a packet holds.
LEMMA InputsSent == Inputs \subseteq InputMsgs
  <1> SUFFICES ASSUME NEW m \in Inputs PROVE m \in InputMsgs
    OBVIOUS
  <1>0. PICK seq \in Ticks, mask \in {0, 10, 31} :
          m = [type |-> "Input", base |-> seq - BatchCount(seq) + 1,
               inputs |-> [i \in 1 .. BatchCount(seq) |-> mask]]
    BY DEF Inputs
  <1> DEFINE n == BatchCount(seq)
             inputs == [i \in 1 .. n |-> mask]
             base == seq - n + 1
  <1>1. n \in 1 .. MaxBatch /\ n \in Nat /\ n <= seq /\ seq \in Nat
    <2>1. seq \in Long \ {0} /\ MaxBatch \in Nat \ {0} /\ Modulus[4] \in Nat
      BY SentFits, Sizes, Zenon
    <2>. QED BY ONLY <2>1 DEF BatchCount, Least, Long
  <1>2. base \in Long \ {0}
    <2>1. seq < Modulus[4] /\ Modulus[4] \in Nat
      BY SentFits, Sizes DEF Long
    <2> HIDE DEF n
    <2>. QED BY ONLY <1>1, <2>1 DEF Long, base
  <1> HIDE DEF n
  <1>3. inputs \in Seq(InputMasks) /\ Len(inputs) = n
    <2>1. inputs \in [1 .. n -> InputMasks]
      BY DEF InputMasks
    <2>. QED BY <1>1, <2>1, FunctionIsSeq, Zenon
  <1> HIDE DEF inputs, base
  <1>4. [type |-> "Input", base |-> base, inputs |-> inputs] \in InputMsgs
    BY <1>1, <1>2, <1>3 DEF InputMsgs
  <1>. QED BY <1>0, <1>4, Zenon DEF inputs, base, n

\* A countdown that has begun has seconds left, and they fit their field.
LEMMA CountdownFits == \A left \in 1 .. CountdownTicks : CountdownSeconds(left) \in Byte \ {0}
  <1> SUFFICES ASSUME NEW left \in 1 .. CountdownTicks PROVE CountdownSeconds(left) \in Byte \ {0}
    OBVIOUS
  <1> DEFINE d == TickRate
             M == Modulus[1]
             x == left + d - 1
             q == x \div d
  <1>1. d \in Nat \ {0} /\ M \in Nat /\ M > 255 /\ CountdownTicks \in Nat /\ CountdownTicks <= d * (M - 1)
    BY TicksAssumption, FieldsAssumption, Sizes, Zenon
  <1>2. q = CountdownSeconds(left)
    BY DEF CountdownSeconds
  <1>3. left \in 1 .. CountdownTicks
    OBVIOUS
  <1> HIDE DEF d, M
  <1>4. d * (M - 1) = d * M - d /\ d * M \in Int
    BY ONLY <1>1
  <1>5. x \in Nat /\ x >= d /\ x < d * M
    <2> DEFINE dm == d * M
               dn == d * (M - 1)
    <2>1. d \in Nat \ {0} /\ CountdownTicks \in Nat /\ CountdownTicks <= dn /\ dn = dm - d /\ dm \in Int
      BY <1>1, <1>4, Zenon
    <2> HIDE DEF dm, dn
    <2>2. x \in Nat /\ x >= d /\ x < dm
      BY ONLY <1>3, <2>1
    <2>. QED BY <2>2, Zenon DEF dm
  <1> HIDE DEF x
  <1>6. q \in Int /\ d * q <= x /\ x < d * q + d
    BY ONLY <1>1, <1>5 DEF q
  <1> HIDE DEF q
  <1>7. q >= 1
    <2>1. SUFFICES ASSUME q <= 0 PROVE FALSE
      BY ONLY <1>6, <2>1
    <2>2. d * q <= 0
      BY ONLY <1>1, <1>6, <2>1
    <2>3. d * q \in Int
      BY ONLY <1>1, <1>6
    <2>. QED BY ONLY <1>1, <1>5, <1>6, <2>2, <2>3
  <1>8. q < M
    <2>1. SUFFICES ASSUME q >= M PROVE FALSE
      BY ONLY <1>1, <1>6, <2>1
    <2>2. d * q >= d * M
      BY ONLY <1>1, <1>6, <2>1
    <2>. QED BY ONLY <1>5, <1>6, <2>2, <1>1
  <1>9. q \in Byte \ {0}
    BY ONLY <1>1, <1>6, <1>7, <1>8 DEF Byte, M
  <1>. QED BY <1>2, <1>9, Zenon

\* Lobbies.
LEMMA LobbiesSent == LobbyStates \subseteq LobbyStateMsgs
  <1>1. Seats \subseteq SeatValues
    <2>1. EmptySeat \in SeatValues
      BY Zenon DEF SeatValues
    <2>2. ASSUME NEW g \in Occupied, NEW n \in Names PROVE [flags |-> g, wins |-> 1, name |-> n] \in SeatValues
      <3>1. n \in Seq(Chars) /\ 1 \in Byte
        BY SentFits, Zenon
      <3>. QED BY <3>1 DEF SeatValues
    <2>. QED BY <2>1, <2>2 DEF Seats
  <1>2. Idle # Countdown /\ 0 \in Byte /\ ~(0 > 0)
    BY SentFits DEF Idle, Countdown
  <1>3. ASSUME NEW m \in LobbyStates PROVE m \in LobbyStateMsgs
    <2>1. CASE \E a, b \in Seats :
                 m = [type |-> "LobbyState", phase |-> Idle, seconds |-> 0,
                      seats |-> [i \in 1 .. MaxPlayers |-> IF i = 1 THEN a ELSE b]]
      <3>1. PICK a, b \in Seats :
                 m = [type |-> "LobbyState", phase |-> Idle, seconds |-> 0,
                      seats |-> [i \in 1 .. MaxPlayers |-> IF i = 1 THEN a ELSE b]]
        BY <2>1
      <3> DEFINE seats == [i \in 1 .. MaxPlayers |-> IF i = 1 THEN a ELSE b]
      <3>2. seats \in [1 .. MaxPlayers -> SeatValues]
        BY <1>1
      <3>3. m = [type |-> "LobbyState", phase |-> Idle, seconds |-> 0, seats |-> seats]
        BY <3>1, Zenon
      <3> HIDE DEF seats
      <3>. QED BY <1>2, <3>2, <3>3 DEF LobbyStateMsgs
    <2>2. CASE \E left \in 1 .. CountdownTicks, seat \in Seats :
                 m = [type |-> "LobbyState", phase |-> Countdown, seconds |-> CountdownSeconds(left),
                      seats |-> [i \in 1 .. MaxPlayers |-> seat]]
      <3>1. PICK left \in 1 .. CountdownTicks, seat \in Seats :
                 m = [type |-> "LobbyState", phase |-> Countdown, seconds |-> CountdownSeconds(left),
                      seats |-> [i \in 1 .. MaxPlayers |-> seat]]
        BY <2>2
      <3> DEFINE seats == [i \in 1 .. MaxPlayers |-> seat]
                 seconds == CountdownSeconds(left)
      <3>2. seats \in [1 .. MaxPlayers -> SeatValues]
        BY <1>1
      <3>3. seconds \in Byte \ {0}
        BY CountdownFits, Zenon
      <3>4. seconds \in Byte /\ seconds > 0
        BY <3>3 DEF Byte
      <3>5. m = [type |-> "LobbyState", phase |-> Countdown, seconds |-> seconds, seats |-> seats]
        BY <3>1, Zenon
      <3> HIDE DEF seats, seconds
      <3>. QED BY <3>2, <3>4, <3>5 DEF LobbyStateMsgs
    <2>. QED BY <2>1, <2>2 DEF LobbyStates
  <1>. QED BY <1>3

\* The first of two things.
LEMMA FirstOf ==
  ASSUME NEW S, NEW a \in S, NEW b \in S, NEW n \in 0 .. 2, NEW s, s = SubSeq(<<a, b>>, 1, n)
  PROVE  /\ s \in Seq(S) /\ Len(s) = n /\ DOMAIN s = 1 .. n
         /\ n >= 1 => s[1] = a
         /\ n = 2 => s[2] = b
  <1> DEFINE t == <<a, b>>
             one == 1
  <1>1. t \in Seq(S) /\ Len(t) = 2 /\ t[1] = a /\ t[2] = b
    OBVIOUS
  <1>2. one \in Nat \ {0} /\ n \in Nat /\ n = (one - 1) + n /\ \A i \in 1 .. n : (one - 1) + i = i
    OBVIOUS
  <1>3. (one - 1) + n <= 2
    OBVIOUS
  <1>4. s = SubSeq(t, one, n)
    OBVIOUS
  <1> HIDE DEF t, one
  <1>5. s \in Seq(S) /\ Len(s) = n /\ \A i \in 1 .. n : s[i] = t[(one - 1) + i]
    BY <1>1, <1>2, <1>3, <1>4, PartOf
  <1>6. \A i \in 1 .. n : s[i] = t[i]
    BY <1>2, <1>5
  <1>7. DOMAIN s = 1 .. n
    BY <1>5
  <1>8. (n >= 1 => 1 \in 1 .. n) /\ (n = 2 => 2 \in 1 .. n)
    OBVIOUS
  <1>. QED BY <1>1, <1>5, <1>6, <1>7, <1>8, Zenon

\* Two keys in their order.
LEMMA TwoAscending ==
  ASSUME NEW n \in 0 .. 2, NEW keys, keys \in [1 .. n -> Int], n = 2 => keys[1] < keys[2]
  PROVE  Ascending(keys)
  <1>1. Len(keys) = n
    OBVIOUS
  <1>. QED BY <1>1 DEF Ascending

\* A list is of distinct things when it has as many of them as it is long.
LEMMA DistinctMeans == ASSUME NEW S, NEW s \in Seq(S) PROVE Distinct(s) <=> AllDistinct(s)
  <1> DEFINE n == Len(s)
             T == ToSet(s)
  <1>1. n \in Nat /\ DOMAIN s = 1 .. n /\ s \in [1 .. n -> S]
    OBVIOUS
  <1>2. T = {s[i] : i \in 1 .. n}
    BY <1>1 DEF ToSet
  <1>3. s \in Surjection(1 .. n, T)
    BY <1>1, <1>2 DEF Surjection
  <1>4. IsFiniteSet(1 .. n) /\ Cardinality(1 .. n) = n
    BY <1>1, FS_Interval
  <1> HIDE DEF n, T
  <1>5. Cardinality(T) = n <=> s \in Injection(1 .. n, T)
    BY <1>3, <1>4, FS_Surjection
  <1>6. s \in Injection(1 .. n, T) <=> \A i, j \in 1 .. n : s[i] = s[j] => i = j
    BY <1>1, <1>3 DEF Injection, IsInjective, Surjection
  <1>7. (\A i, j \in 1 .. n : s[i] = s[j] => i = j) <=> \A i, j \in 1 .. n : i < j => s[i] # s[j]
    BY <1>1
  <1>. QED BY <1>1, <1>5, <1>6, <1>7, Zenon DEF Distinct, AllDistinct, n, T

\* Snapshots.
LEMMA SnapshotsSent == Snapshots \subseteq SnapshotMsgs
  <1> SUFFICES ASSUME NEW m \in Snapshots PROVE m \in SnapshotMsgs
    OBVIOUS
  <1>1. PICK x \in Positions, n \in 0 .. Least(2, Least(MaxBombs, MaxPowerups)) : m = SampleSnapshot(x, n)
    BY DEF Snapshots
  <1> DEFINE p == [i \in 1 .. MaxPlayers |-> SampleEntry(i - 1, x)]
             b == SubSeq(<<SampleBomb(<<1, 0>>), SampleBomb(<<0, 1>>)>>, 1, n)
             u == SubSeq(<<SamplePowerup(<<1, 1>>), SamplePowerup(<<0, 2>>)>>, 1, n)
  <1>2. m = [type |-> "Snapshot", matchId |-> 1, tick |-> 1, players |-> p, bombs |-> b, powerups |-> u]
    BY <1>1, Zenon DEF SampleSnapshot
  <1>3. x \in Short /\ 0 \in Short /\ 1 \in Long /\ 1 \in Byte \ {0} /\ 0 \in PlayerIds /\ 0 \in 0 .. PowerupTypes - 1
    BY SentFits, Zenon
  <1>4. /\ MaxPlayers \in Nat /\ Width \in Nat /\ Height \in Nat /\ Width >= 3 /\ Height >= 3
        /\ MaxBombs \in Nat /\ MaxPowerups \in Nat
    BY Sizes, Zenon
  <1>41. n \in 0 .. 2 /\ n <= MaxBombs /\ n <= MaxPowerups
    BY <1>4 DEF Least
  <1>5. p \in Seq(PlayerValues) /\ Len(p) = MaxPlayers /\ Ascending(IdsOf(p))
    <2>1. ASSUME NEW i \in 1 .. MaxPlayers PROVE SampleEntry(i - 1, x) \in PlayerValues
      <3>1. i - 1 \in PlayerIds /\ 1 \in PlayerFlags
        BY <1>4 DEF PlayerIds, PlayerFlags
      <3>. QED BY <1>3, <3>1 DEF PlayerValues, SampleEntry
    <2>2. p \in [1 .. MaxPlayers -> PlayerValues]
      BY <2>1, Zenon
    <2>3. p \in Seq(PlayerValues) /\ Len(p) = MaxPlayers /\ DOMAIN p = 1 .. MaxPlayers
      BY <1>4, <2>2, FunctionIsSeq
    <2>4. \A i \in 1 .. MaxPlayers : p[i].id = i - 1
      BY DEF SampleEntry
    <2> HIDE DEF p
    <2>5. IdsOf(p) = [i \in 1 .. MaxPlayers |-> i - 1]
      BY <2>3, <2>4, Zenon DEF IdsOf
    <2> DEFINE ids == [i \in 1 .. MaxPlayers |-> i - 1]
    <2>6. Len(ids) = MaxPlayers
      BY <1>4
    <2>7. \A i \in 2 .. MaxPlayers : ids[i - 1] < ids[i]
      BY <1>4
    <2>. QED BY <2>3, <2>5, <2>6, <2>7, Zenon DEF Ascending
  <1>6. b \in Seq(BombValues) /\ Len(b) = n /\ Ascending(KeysOf(b))
    <2> DEFINE one == SampleBomb(<<1, 0>>)
               two == SampleBomb(<<0, 1>>)
    <2>1. <<1, 0>> \in BoardCells /\ <<0, 1>> \in BoardCells
      BY <1>4 DEF BoardCells
    <2>2. one \in BombValues /\ two \in BombValues /\ one.cell = <<1, 0>> /\ two.cell = <<0, 1>>
      BY <1>3, <2>1 DEF SampleBomb, BombValues
    <2>3. TileCellKey(<<1, 0>>) = 1 /\ TileCellKey(<<0, 1>>) = Width
      BY <1>4 DEF TileCellKey
    <2>4. b = SubSeq(<<one, two>>, 1, n)
      OBVIOUS
    <2> HIDE DEF b, one, two
    <2>5. /\ b \in Seq(BombValues) /\ Len(b) = n /\ DOMAIN b = 1 .. n
          /\ n >= 1 => b[1] = one
          /\ n = 2 => b[2] = two
      BY <1>41, <2>2, <2>4, FirstOf
    <2> DEFINE keys == KeysOf(b)
    <2>6. DOMAIN keys = 1 .. n /\ keys = [i \in 1 .. n |-> keys[i]] /\ \A i \in 1 .. n : keys[i] = TileCellKey(b[i].cell)
      BY <2>5, Zenon DEF KeysOf
    <2> HIDE DEF keys
    <2>7. (n >= 1 => keys[1] = 1) /\ (n = 2 => keys[2] = Width)
      <3>1. (n >= 1 => 1 \in 1 .. n) /\ (n = 2 => 2 \in 1 .. n)
        BY <1>41
      <3>. QED BY <2>2, <2>3, <2>5, <2>6, <3>1, Zenon
    <2>8. keys \in [1 .. n -> Int] /\ (n = 2 => keys[1] < keys[2])
      <3>1. \A i \in 1 .. n : keys[i] \in Int
        BY <1>4, <1>41, <2>7
      <3>. QED BY <1>4, <1>41, <2>6, <2>7, <3>1
    <2>. QED BY <2>5, <2>8, <1>41, TwoAscending DEF keys
  <1>7. u \in Seq(PowerupValues) /\ Len(u) = n /\ Ascending(KeysOf(u))
    <2> DEFINE one == SamplePowerup(<<1, 1>>)
               two == SamplePowerup(<<0, 2>>)
    <2>1. <<1, 1>> \in BoardCells /\ <<0, 2>> \in BoardCells
      BY <1>4 DEF BoardCells
    <2>2. one \in PowerupValues /\ two \in PowerupValues /\ one.cell = <<1, 1>> /\ two.cell = <<0, 2>>
      BY <1>3, <2>1 DEF SamplePowerup, PowerupValues
    <2>3. TileCellKey(<<1, 1>>) = Width + 1 /\ TileCellKey(<<0, 2>>) = 2 * Width
      BY <1>4 DEF TileCellKey
    <2>4. u = SubSeq(<<one, two>>, 1, n)
      OBVIOUS
    <2> HIDE DEF u, one, two
    <2>5. /\ u \in Seq(PowerupValues) /\ Len(u) = n /\ DOMAIN u = 1 .. n
          /\ n >= 1 => u[1] = one
          /\ n = 2 => u[2] = two
      BY <1>41, <2>2, <2>4, FirstOf
    <2> DEFINE keys == KeysOf(u)
    <2>6. DOMAIN keys = 1 .. n /\ keys = [i \in 1 .. n |-> keys[i]] /\ \A i \in 1 .. n : keys[i] = TileCellKey(u[i].cell)
      BY <2>5, Zenon DEF KeysOf
    <2> HIDE DEF keys
    <2>7. (n >= 1 => keys[1] = Width + 1) /\ (n = 2 => keys[2] = 2 * Width)
      <3>1. (n >= 1 => 1 \in 1 .. n) /\ (n = 2 => 2 \in 1 .. n)
        BY <1>41
      <3>. QED BY <2>2, <2>3, <2>5, <2>6, <3>1, Zenon
    <2>8. keys \in [1 .. n -> Int] /\ (n = 2 => keys[1] < keys[2])
      <3>1. \A i \in 1 .. n : keys[i] \in Int
        BY <1>4, <1>41, <2>7
      <3>. QED BY <1>4, <1>41, <2>6, <2>7, <3>1
    <2>. QED BY <2>5, <2>8, <1>41, TwoAscending DEF keys
  <1> HIDE DEF p, b, u
  <1>8. Len(p) <= MaxPlayers /\ Len(b) <= MaxBombs /\ Len(u) <= MaxPowerups
    BY <1>4, <1>41, <1>5, <1>6, <1>7
  <1>. QED BY <1>2, <1>3, <1>5, <1>6, <1>7, <1>8, ListedOk, SnapshotFrom

\* The events of a bomb.
LEMMA EventsSent == GameplayEvents \subseteq BombPlacedMsgs \union ExplosionMsgs
  <1> SUFFICES ASSUME NEW m \in GameplayEvents PROVE m \in BombPlacedMsgs \union ExplosionMsgs
    OBVIOUS
  <1>1. /\ Width \in Nat /\ Height \in Nat /\ Width >= 3 /\ Height >= 3
        /\ MaxBlast \in Nat /\ MaxBlast >= 9 /\ MaxBricks = MaxBlast - 1
    BY Sizes, Zenon
  <1>2. <<1, 1>> \in BoardCells /\ <<2, 1>> \in BoardCells /\ <<1, 0>> \in BoardCells
    BY <1>1 DEF BoardCells
  <1>3. CASE \E t \in Ticks : m = [type |-> "BombPlaced", matchId |-> 1, tick |-> t, explode |-> t + 1, owner |-> 0,
                                   cell |-> <<1, 1>>, radius |-> 1]
    <2>1. PICK t \in Ticks : m = [type |-> "BombPlaced", matchId |-> 1, tick |-> t, explode |-> t + 1, owner |-> 0,
                                  cell |-> <<1, 1>>, radius |-> 1]
      BY <1>3
    <2> DEFINE cell == <<1, 1>>
    <2>2. cell \in BoardCells
      BY <1>2
    <2>3. m = [type |-> "BombPlaced", matchId |-> 1, tick |-> t, explode |-> t + 1, owner |-> 0,
               cell |-> cell, radius |-> 1]
      BY <2>1, Zenon
    <2> HIDE DEF cell
    <2>4. t \in Long /\ t + 1 \in Long /\ 1 \in Long /\ 0 \in PlayerIds /\ 1 \in Byte \ {0}
      BY SentFits, Zenon
    <2>5. t + 1 >= t
      BY <2>4 DEF Long
    <2>. QED BY <2>2, <2>3, <2>4, <2>5 DEF BombPlacedMsgs
  <1>4. CASE \E k \in 0 .. 2 ^ MaxPlayers - 1, n \in 0 .. 2 :
               m = [type |-> "ExplosionResolved", matchId |-> 1, tick |-> 1, owner |-> 0, origin |-> <<1, 1>>,
                    radius |-> 1, killed |-> k, blast |-> <<<<1, 1>>, <<2, 1>>, <<1, 0>>>>,
                    bricks |-> SubSeq(<<<<2, 1>>, <<1, 0>>>>, 1, n)]
    <2>1. PICK k \in 0 .. 2 ^ MaxPlayers - 1, n \in 0 .. 2 :
               m = [type |-> "ExplosionResolved", matchId |-> 1, tick |-> 1, owner |-> 0, origin |-> <<1, 1>>,
                    radius |-> 1, killed |-> k, blast |-> <<<<1, 1>>, <<2, 1>>, <<1, 0>>>>,
                    bricks |-> SubSeq(<<<<2, 1>>, <<1, 0>>>>, 1, n)]
      BY <1>4
    <2> DEFINE a == <<1, 1>>
               b == <<2, 1>>
               c == <<1, 0>>
               blast == <<a, b, c>>
               bricks == SubSeq(<<b, c>>, 1, n)
               all == 2 ^ MaxPlayers
    <2>2. a \in BoardCells /\ b \in BoardCells /\ c \in BoardCells /\ a # b /\ a # c /\ b # c
      BY <1>2
    <2>3. m = [type |-> "ExplosionResolved", matchId |-> 1, tick |-> 1, owner |-> 0, origin |-> a,
               radius |-> 1, killed |-> k, blast |-> blast, bricks |-> bricks]
      BY <2>1, Zenon
    <2>4. all \in 1 .. Modulus[1] /\ Modulus[1] \in Nat /\ k \in 0 .. all - 1
      BY FieldsAssumption, Sizes, Zenon
    <2> HIDE DEF a, b, c, all
    <2>5. k \in Byte /\ k < all
      BY ONLY <2>4 DEF Byte
    <2>6. /\ blast \in Seq(BoardCells) /\ Len(blast) = 3 /\ blast[1] = a /\ blast[2] = b /\ blast[3] = c
          /\ DOMAIN blast = 1 .. 3
      BY <2>2
    <2>7. /\ bricks \in Seq(BoardCells) /\ Len(bricks) = n /\ DOMAIN bricks = 1 .. n
          /\ n >= 1 => bricks[1] = b
          /\ n = 2 => bricks[2] = c
      BY <2>2, FirstOf
    <2> HIDE DEF blast, bricks
    <2>8. Distinct(blast)
      <3>1. \A i, j \in 1 .. 3 : i < j => blast[i] # blast[j]
        BY <2>2, <2>6
      <3>. QED BY <2>6, <3>1, DistinctMeans, Zenon DEF AllDistinct
    <2>9. Distinct(bricks)
      <3>1. \A i, j \in 1 .. n : i < j => bricks[i] # bricks[j]
        BY <2>2, <2>7
      <3>. QED BY <2>7, <3>1, DistinctMeans, Zenon DEF AllDistinct
    <2>10. \A i \in DOMAIN bricks : \E j \in DOMAIN blast : bricks[i] = blast[j]
      <3>1. ASSUME NEW i \in 1 .. n PROVE bricks[i] = blast[2] \/ bricks[i] = blast[3]
        BY <2>6, <2>7
      <3>2. 2 \in 1 .. 3 /\ 3 \in 1 .. 3
        OBVIOUS
      <3>. QED BY <2>6, <2>7, <3>1, <3>2, Zenon
    <2>11. /\ Len(blast) \in 1 .. MaxBlast /\ Len(bricks) <= MaxBricks /\ Len(bricks) <= Len(blast)
      BY <1>1, <2>6, <2>7
    <2>12. 1 \in Long /\ 0 \in PlayerIds /\ 1 \in Byte \ {0}
      BY SentFits, Zenon
    <2>13. m \in [type : {"ExplosionResolved"}, matchId : Long, tick : Long, owner : PlayerIds, origin : BoardCells,
                  radius : Byte \ {0}, killed : Byte, blast : Seq(BoardCells), bricks : Seq(BoardCells)]
      BY <2>2, <2>3, <2>5, <2>6, <2>7, <2>12
    <2>14. m.blast = blast /\ m.bricks = bricks /\ m.killed = k /\ m.origin = a
      BY <2>3
    <2>. QED BY <2>5, <2>6, <2>8, <2>9, <2>10, <2>11, <2>13, <2>14, Zenon DEF ExplosionMsgs, all
  <1>. QED BY <1>3, <1>4 DEF GameplayEvents

\* All that is sent can be sent, and is of the types that the other side handles.
LEMMA SentIsSendable ==
  /\ \A m \in FromServer \union FromClient : m \in Sendable /\ m.type \in MsgTypes /\ m.type \in HandledBy(m)
  /\ None \notin FromServer \union FromClient
  <1>1. ASSUME NEW m \in FromServer PROVE m \in Sendable /\ m.type \in ClientHandles
    <2>1. m \in Welcomes \union Rejects => m \in Sendable /\ m.type \in ClientHandles
      BY WelcomesSent DEF Sendable, WelcomeMsgs, RejectMsgs, ClientHandles
    <2>2. m \in LevelInfos \union MatchStarts => m \in Sendable /\ m.type \in ClientHandles
      BY RoundSent DEF Sendable, LevelInfoMsgs, MatchStartMsgs, ClientHandles
    <2>3. m \in MatchResults => m \in Sendable /\ m.type \in ClientHandles
      BY RoundSent DEF Sendable, DrawMsgs, WonMsgs, ClientHandles
    <2>4. m \in Cancellations => m \in Sendable /\ m.type \in ClientHandles
      <3>1. m \in Cancellations => m \in Sendable
        BY RoundSent, Zenon DEF Sendable
      <3>. QED BY <3>1 DEF Cancellations, ClientHandles
    <2>5. m \in LobbyStates => m \in Sendable /\ m.type \in ClientHandles
      BY LobbiesSent DEF Sendable, LobbyStateMsgs, ClientHandles
    <2>6. m \in Corrections => m \in Sendable /\ m.type \in ClientHandles
      BY HellosSent DEF Sendable, CorrectionMsgs, ClientHandles
    <2>7. m \in Snapshots => m \in Sendable /\ m.type \in ClientHandles
      <3>1. m \in Snapshots => m \in SnapshotMsgs /\ m \in Sendable
        BY SnapshotsSent, Zenon DEF Sendable
      <3>. QED BY <3>1, SnapshotParts DEF ClientHandles
    <2>8. m \in GameplayEvents => m \in Sendable /\ m.type \in ClientHandles
      <3>1. m \in GameplayEvents => m \in BombPlacedMsgs \union ExplosionMsgs /\ m \in Sendable
        BY EventsSent, Zenon DEF Sendable
      <3>2. m \in BombPlacedMsgs => m.type = "BombPlaced"
        BY DEF BombPlacedMsgs
      <3>. QED BY <3>1, <3>2, ExplosionParts DEF ClientHandles
    <2>. QED BY <2>1, <2>2, <2>3, <2>4, <2>5, <2>6, <2>7, <2>8, Zenon DEF FromServer
  <1>2. ASSUME NEW m \in FromClient PROVE m \in Sendable /\ m.type \in ServerHandles
    <2>1. m \in Hellos => m \in Sendable /\ m.type \in ServerHandles
      BY HellosSent DEF Sendable, HelloMsgs, ServerHandles
    <2>2. m \in LobbyReadies => m \in Sendable /\ m.type \in ServerHandles
      BY RoundSent DEF Sendable, LobbyReadyMsgs, ServerHandles
    <2>3. m \in MatchesLoaded => m \in Sendable /\ m.type \in ServerHandles
      <3>1. m \in MatchesLoaded => m \in Sendable
        BY RoundSent, Zenon DEF Sendable
      <3>. QED BY <3>1 DEF MatchesLoaded, ServerHandles
    <2>4. m \in Inputs => m \in Sendable /\ m.type \in ServerHandles
      BY InputsSent DEF Sendable, InputMsgs, ServerHandles
    <2>. QED BY <2>1, <2>2, <2>3, <2>4, Zenon DEF FromClient
  <1>3. ServerHandles \subseteq MsgTypes /\ ClientHandles \subseteq MsgTypes /\ "None" \notin MsgTypes
    BY DEF ServerHandles, ClientHandles, MsgTypes, ControlMsgs, Handshake, RoundControl
  <1>4. None.type = "None"
    BY DEF None
  <1>. QED BY <1>1, <1>2, <1>3, <1>4, Zenon DEF HandledBy

\* A packet of this build says what its message is, and is of the size and on the channel that it should be.
LEMMA PacketOf ==
  ASSUME NEW m, m.type \in MsgTypes, NEW handles, m.type \in handles
  PROVE  /\ Received(Packet(m), handles) = Deserialize(m.type, Serialize(m))
         /\ Packet(m).type = m.type /\ Packet(m).fields = Serialize(m) /\ Packet(m) # None
         /\ Packet(m) = [type |-> m.type, channel |-> Packet(m).channel, size |-> Packet(m).size,
                         bytes |-> Packet(m).bytes, fields |-> Serialize(m)]
  <1> DEFINE p == Packet(m)
             size == ExpectedPayloadSize(m.type)
             channel == ExpectedChannel(m.type)
             fields == Serialize(m)
  <1>1. p = [type |-> m.type, channel |-> channel, size |-> size, bytes |-> size, fields |-> fields]
    BY DEF Packet
  <1> HIDE DEF p, size, channel, fields
  <1>2. /\ p.type = m.type /\ p.channel = channel /\ p.size = size /\ p.bytes = size /\ p.fields = fields
        /\ p = [type |-> m.type, channel |-> p.channel, size |-> p.size, bytes |-> p.bytes, fields |-> fields]
    BY <1>1
  <1>3. p # None
    <2>1. "None" \notin MsgTypes /\ None.type = "None"
      BY DEF None, MsgTypes, ControlMsgs, Handshake, RoundControl
    <2>. QED BY <1>2, <2>1, Zenon
  <1>4. HeaderParses(p) /\ p.channel = ExpectedChannel(p.type) /\ p.type \in handles
    BY <1>2, Zenon DEF HeaderParses, size, channel
  <1>5. Received(p, handles) = Deserialize(p.type, p.fields)
    BY <1>4, Zenon DEF Received
  <1>. QED BY <1>2, <1>3, <1>5, Zenon DEF p, fields

-----------------------------------------------------------------------------
(* The invariant. *)

\* A packet whose fields are those of its type, whatever they hold.
IsPacket(p) ==
  /\ p = [type |-> p.type, channel |-> p.channel, size |-> p.size, bytes |-> p.bytes, fields |-> p.fields]
  /\ p.type \in MsgTypes /\ FieldsOf(p.fields, Layout(p.type))

\* What is under way was sent by a program, as it writes it unless it was harmed; and what a handler is
\* given could have been sent as it is, and is what was sent unless it was harmed.
TripInv ==
  /\ sent # None => sent \in FromServer \union FromClient
  /\ packet # None => sent # None /\ received = None /\ IsPacket(packet)
  /\ packet # None /\ ~harmed => packet = Packet(sent)
  /\ received \notin {None, Rejected} => received \in Sound /\ received.type \in MsgTypes \intersect HandledBy(sent)
  /\ received # None => sent # None
  /\ received # None /\ ~harmed => received = Shortened(sent)
  /\ sent = None => ~harmed
  /\ harmed \in BOOLEAN

\* The values that a field may be given fit it.
LEMMA SamplesFit == \A width \in {1, 2, 4} : \A v \in Samples(width) : v \in 0 .. Modulus[width] - 1
  BY Sizes DEF Samples

\* What is sent is written as fields of its type.
LEMMA SendHolds == TripInv /\ Send => TripInv'
  <1> SUFFICES ASSUME TripInv, Send PROVE TripInv'
    OBVIOUS
  <1>1. PICK m \in FromServer \union FromClient : sent' = m /\ packet' = Packet(m)
    BY Zenon DEF Send
  <1>2. sent = None /\ packet = None /\ received = None /\ ~harmed
    BY Zenon DEF Send, TripInv
  <1>3. m \in Sendable /\ m.type \in MsgTypes /\ m.type \in HandledBy(m) /\ m # None
    BY SentIsSendable, Zenon
  <1>4. FieldsOf(Serialize(m), Layout(m.type))
    BY <1>3, AllTrip, Zenon DEF Trips
  <1>5. IsPacket(Packet(m))
    BY <1>3, <1>4, PacketOf, Zenon DEF IsPacket
  <1>6. received' = None /\ harmed' = harmed
    BY <1>2, Zenon DEF Send
  <1>. QED BY <1>1, <1>2, <1>3, <1>5, <1>6, Zenon DEF TripInv

\* A packet that is harmed is one of fields still.
LEMMA HarmHolds == TripInv /\ Harm => TripInv'
  <1> SUFFICES ASSUME TripInv, Harm PROVE TripInv'
    OBVIOUS
  <1>1. packet # None /\ harmed' = TRUE /\ sent' = sent /\ received' = received
    BY Zenon DEF Harm
  <1>2. sent # None /\ received = None /\ IsPacket(packet) /\ sent \in FromServer \union FromClient
    BY <1>1, Zenon DEF TripInv
  <1> DEFINE w == Layout(packet.type)
             f == packet.fields
  <1>3. /\ w \in Seq({1, 2, 4}) /\ FieldsOf(f, w) /\ packet.type \in MsgTypes
        /\ packet = [type |-> packet.type, channel |-> packet.channel, size |-> packet.size,
                     bytes |-> packet.bytes, fields |-> f]
    BY <1>2, LayoutWidths, Zenon DEF IsPacket
  <1> HIDE DEF w, f
  <1>4. IsPacket(packet')
    <2>1. CASE \E i \in DOMAIN packet.fields : \E v \in Samples(Layout(packet.type)[i]) :
                 packet' = [packet EXCEPT !.fields[i] = v]
      <3>0. PICK i \in DOMAIN f : \E v \in Samples(w[i]) : packet' = [packet EXCEPT !.fields[i] = v]
        BY <2>1, Zenon DEF f, w
      <3>1. PICK v \in Samples(w[i]) : packet' = [packet EXCEPT !.fields[i] = v]
        BY <3>0, Zenon
      <3> DEFINE g == [f EXCEPT ![i] = v]
      <3>2. f \in Seq(Int) /\ Len(f) = Len(w) /\ \A j \in 1 .. Len(w) : f[j] \in 0 .. Modulus[w[j]] - 1
        BY <1>3, Zenon DEF FieldsOf
      <3>3. DOMAIN f = 1 .. Len(w) /\ i \in 1 .. Len(w)
        BY <3>2
      <3>4. w[i] \in {1, 2, 4}
        BY <1>3, <3>3
      <3>5. v \in 0 .. Modulus[w[i]] - 1 /\ v \in Int
        <4>1. v \in 0 .. Modulus[w[i]] - 1
          BY <3>4, SamplesFit, Zenon
        <4>. QED BY <4>1, <3>4, Sizes
      <3>6. g \in Seq(Int) /\ Len(g) = Len(w)
        BY <3>2, <3>3, <3>5
      <3>7. \A j \in 1 .. Len(w) : g[j] \in 0 .. Modulus[w[j]] - 1
        <4>1. \A j \in 1 .. Len(w) : g[j] = IF j = i THEN v ELSE f[j]
          BY <3>3
        <4> HIDE DEF g
        <4>. QED BY <3>2, <3>5, <4>1, Zenon
      <3>8. FieldsOf(g, w)
        BY <3>6, <3>7, Zenon DEF FieldsOf
      <3>9. packet' = [type |-> packet.type, channel |-> packet.channel, size |-> packet.size,
                       bytes |-> packet.bytes, fields |-> g]
        BY <1>3, <3>1 DEF f
      <3> HIDE DEF g
      <3>10. packet'.type = packet.type /\ packet'.fields = g
             /\ packet' = [type |-> packet'.type, channel |-> packet'.channel, size |-> packet'.size,
                           bytes |-> packet'.bytes, fields |-> packet'.fields]
        BY <3>9
      <3>. QED BY <1>3, <3>8, <3>10, Zenon DEF IsPacket, w
    <2>2. CASE packet' = [packet EXCEPT !.bytes = @ - 1] \/ \E c \in 0 .. 4 : packet' = [packet EXCEPT !.channel = c]
      <3>1. packet'.type = packet.type /\ packet'.fields = f
            /\ packet' = [type |-> packet'.type, channel |-> packet'.channel, size |-> packet'.size,
                          bytes |-> packet'.bytes, fields |-> packet'.fields]
        BY <1>3, <2>2
      <3>. QED BY <1>3, <3>1, Zenon DEF IsPacket, w
    <2>. QED BY <2>1, <2>2, Zenon DEF Harm
  <1>. QED BY <1>1, <1>2, <1>4, Zenon DEF TripInv

\* What is read could have been sent, and is what was sent.
LEMMA DeliverHolds == TripInv /\ Deliver => TripInv'
  <1> SUFFICES ASSUME TripInv, Deliver PROVE TripInv'
    OBVIOUS
  <1>1. /\ packet # None /\ received' = Received(packet, HandledBy(sent)) /\ packet' = None
        /\ sent' = sent /\ harmed' = harmed
    BY Zenon DEF Deliver
  <1>2. /\ sent # None /\ sent \in FromServer \union FromClient /\ harmed \in BOOLEAN
        /\ packet.type \in MsgTypes /\ FieldsOf(packet.fields, Layout(packet.type))
        /\ ~harmed => packet = Packet(sent)
    BY <1>1, Zenon DEF TripInv, IsPacket
  <1>3. HandledBy(sent)' = HandledBy(sent)
    BY <1>1, Zenon DEF HandledBy
  <1>4. ASSUME received' # Rejected PROVE received' \in Sound /\ received'.type \in MsgTypes \intersect HandledBy(sent)
    <2>1. packet.type \in HandledBy(sent) /\ received' = Deserialize(packet.type, packet.fields)
      BY <1>1, <1>4, Zenon DEF Received
    <2>2. received' \in Sound /\ received'.type = packet.type
      BY <1>2, <1>4, <2>1, AllRead, Zenon
    <2>. QED BY <1>2, <2>1, <2>2, Zenon
  <1>5. ASSUME ~harmed PROVE received' = Shortened(sent)
    <2>1. sent \in Sendable /\ sent.type \in MsgTypes /\ sent.type \in HandledBy(sent)
      BY <1>2, SentIsSendable, Zenon
    <2>2. received' = Deserialize(sent.type, Serialize(sent))
      BY <1>1, <1>2, <1>5, <2>1, PacketOf, Zenon
    <2>. QED BY <2>1, <2>2, AllTrip, Zenon DEF Trips
  <1>. QED BY <1>1, <1>2, <1>3, <1>4, <1>5, Zenon DEF TripInv

\* TripInv holds of every reachable state.
THEOREM TripInvHolds == Spec => []TripInv
  <1>1. Init => TripInv
    BY Zenon DEF Init, TripInv
  <1>2. ASSUME TripInv, [Next]_vars PROVE TripInv'
    <2>1. CASE Send
      BY <1>2, <2>1, SendHolds, Zenon
    <2>2. CASE Harm
      BY <1>2, <2>2, HarmHolds, Zenon
    <2>3. CASE Deliver
      BY <1>2, <2>3, DeliverHolds, Zenon
    <2>4. CASE Handled
      BY <1>2, <2>4, Zenon DEF Handled, TripInv
    <2>5. CASE UNCHANGED vars
      BY <1>2, <2>5, Zenon DEF vars, TripInv, HandledBy
    <2>. QED BY <1>2, <2>1, <2>2, <2>3, <2>4, <2>5, Zenon DEF Next
  <1>. QED BY <1>1, <1>2, PTL DEF Spec

\* Whatever either program has reason to send reaches the other's handler as it was sent, with names cut to
\* their field, whatever the sizes of the protocol: nothing that is written is rejected.
THEOREM DeliveredHolds == Spec => []DeliveredAsSent
  <1>1. TripInv => DeliveredAsSent
    BY Zenon DEF TripInv, DeliveredAsSent
  <1>. QED BY <1>1, TripInvHolds, PTL

\* Keys that ascend are of distinct cells.
LEMMA AscendingDistinct ==
  ASSUME NEW S, NEW list \in Seq(S), NEW keys, DOMAIN keys = DOMAIN list, keys \in Seq(Int), Ascending(keys)
  PROVE  AllDistinct(keys)
  <1> DEFINE n == Len(keys)
  <1>1. n \in Nat /\ DOMAIN keys = 1 .. n /\ \A i \in 1 .. n : keys[i] \in Int
    OBVIOUS
  <1>2. \A i \in 2 .. n : keys[i - 1] < keys[i]
    BY Zenon DEF Ascending
  <1> HIDE DEF n
  <1> DEFINE P == {d \in Nat : \A i \in 1 .. n : i + d + 1 \in 1 .. n => keys[i] < keys[i + d + 1]}
  <1>3. 0 \in P
    BY <1>1, <1>2
  <1>4. ASSUME NEW d \in P PROVE d + 1 \in P
    <2>1. ASSUME NEW i \in 1 .. n, i + (d + 1) + 1 \in 1 .. n PROVE keys[i] < keys[i + (d + 1) + 1]
      <3> DEFINE j == i + d + 1
                 k == i + (d + 1) + 1
      <3>1. d \in Nat /\ j \in 1 .. n /\ k \in 2 .. n /\ k - 1 = j /\ k \in 1 .. n
        BY <1>1, <2>1
      <3>2. keys[i] < keys[j]
        BY <3>1
      <3> HIDE DEF j, k
      <3>3. keys[k - 1] < keys[k]
        BY <1>2, <3>1, Zenon
      <3>4. keys[i] \in Int /\ keys[j] \in Int /\ keys[k] \in Int
        BY <1>1, <2>1, <3>1, Zenon
      <3>5. keys[i] < keys[k]
        BY <3>1, <3>2, <3>3, <3>4
      <3>. QED BY <3>5 DEF k
    <2>. QED BY <1>4, <2>1
  <1> HIDE DEF P
  <1>5. Nat \subseteq P
    BY <1>3, <1>4, Induction, Zenon
  <1>6. ASSUME NEW i \in 1 .. n, NEW j \in 1 .. n, i < j PROVE keys[i] # keys[j]
    <2>1. j - i - 1 \in Nat /\ i + (j - i - 1) + 1 = j
      BY <1>6
    <2>2. j - i - 1 \in P
      BY <1>5, <2>1, Zenon
    <2>3. keys[i] < keys[j]
      BY <2>1, <2>2 DEF P
    <2>. QED BY <1>1, <2>3
  <1>. QED BY <1>1, <1>6, Zenon DEF AllDistinct

\* So a snapshot lists no player, and no cell, twice.
LEMMA SnapshotDistinct ==
  ASSUME NEW m \in SnapshotMsgs
  PROVE  /\ AllDistinct([i \in DOMAIN m.players |-> m.players[i].id])
         /\ AllDistinct([i \in DOMAIN m.bombs |-> m.bombs[i].cell])
         /\ AllDistinct([i \in DOMAIN m.powerups |-> m.powerups[i].cell])
  <1> DEFINE p == m.players
             b == m.bombs
             u == m.powerups
  <1>1. /\ p \in Seq(PlayerValues) /\ b \in Seq(BombValues) /\ u \in Seq(PowerupValues)
        /\ Ascending(IdsOf(p)) /\ Ascending(KeysOf(b)) /\ Ascending(KeysOf(u))
    BY SnapshotParts, Zenon
  <1>2. \A S : \A list \in Seq(S) : Len(list) \in Nat /\ DOMAIN list = 1 .. Len(list) /\ \A i \in 1 .. Len(list) : list[i] \in S
    OBVIOUS
  <1>3. \A c \in BoardCells : TileCellKey(c) \in Int
    <2>1. ASSUME NEW c \in BoardCells PROVE TileCellKey(c) \in Int
      <3>1. c[1] \in Nat /\ c[2] \in Nat /\ Width \in Nat
        BY Fits, Sizes
      <3>2. c[2] * Width \in Nat
        BY <3>1, Product, Zenon
      <3> DEFINE row == c[2] * Width
      <3> HIDE DEF row
      <3>3. row + c[1] \in Int
        BY ONLY <3>1, <3>2 DEF row
      <3>. QED BY <3>3, Zenon DEF TileCellKey, row
    <2>. QED BY <2>1, Zenon
  <1> HIDE DEF p, b, u
  <1>4. AllDistinct(IdsOf(p))
    <2>1. \A i \in 1 .. Len(p) : p[i].id \in Int
      BY <1>1, <1>2, ListedParts, Fits
    <2>2. IdsOf(p) \in [1 .. Len(p) -> Int] /\ DOMAIN IdsOf(p) = DOMAIN p
      BY <1>1, <1>2, <2>1, Zenon DEF IdsOf
    <2>3. IdsOf(p) \in Seq(Int)
      BY <1>1, <1>2, <2>2, FunctionIsSeq, Zenon
    <2>. QED BY <1>1, <2>2, <2>3, AscendingDistinct
  <1>5. AllDistinct(KeysOf(b))
    <2>1. \A i \in 1 .. Len(b) : TileCellKey(b[i].cell) \in Int
      BY <1>1, <1>2, <1>3, ListedParts, Zenon
    <2>2. KeysOf(b) \in [1 .. Len(b) -> Int] /\ DOMAIN KeysOf(b) = DOMAIN b
      BY <1>1, <1>2, <2>1, Zenon DEF KeysOf
    <2>3. KeysOf(b) \in Seq(Int)
      BY <1>1, <1>2, <2>2, FunctionIsSeq, Zenon
    <2>. QED BY <1>1, <2>2, <2>3, AscendingDistinct
  <1>6. AllDistinct(KeysOf(u))
    <2>1. \A i \in 1 .. Len(u) : TileCellKey(u[i].cell) \in Int
      BY <1>1, <1>2, <1>3, ListedParts, Zenon
    <2>2. KeysOf(u) \in [1 .. Len(u) -> Int] /\ DOMAIN KeysOf(u) = DOMAIN u
      BY <1>1, <1>2, <2>1, Zenon DEF KeysOf
    <2>3. KeysOf(u) \in Seq(Int)
      BY <1>1, <1>2, <2>2, FunctionIsSeq, Zenon
    <2>. QED BY <1>1, <2>2, <2>3, AscendingDistinct
  <1>7. ASSUME NEW things, AllDistinct(KeysOf(things)) PROVE AllDistinct([i \in DOMAIN things |-> things[i].cell])
    <2>1. DOMAIN KeysOf(things) = DOMAIN things /\ \A i \in DOMAIN things : KeysOf(things)[i] = TileCellKey(things[i].cell)
      BY Zenon DEF KeysOf
    <2>2. \A i, j \in DOMAIN things : i < j => TileCellKey(things[i].cell) # TileCellKey(things[j].cell)
      BY <1>7, <2>1, Zenon DEF AllDistinct
    <2>. QED BY <2>2, Zenon DEF AllDistinct
  <1>8. AllDistinct([i \in DOMAIN p |-> p[i].id])
    BY <1>4, Zenon DEF IdsOf
  <1>. QED BY <1>5, <1>6, <1>7, <1>8, Zenon DEF p, b, u

\* Whatever can be sent as it is, a handler can rely on.
LEMMA SoundIsReliable ==
  ASSUME NEW m \in Sound, NEW handles, m.type \in MsgTypes \intersect handles
  PROVE  /\ Received(Packet(m), handles) = m
         /\ m.type = "Welcome" => m.id \in PlayerIds /\ m.tickRate # 0
         /\ m.type = "MatchResult" => (m.winner = NoWinner) = (m.name = <<>>)
         /\ m.type = "LobbyState" => (m.phase = Countdown) = (m.seconds > 0)
         /\ m.type = "Input" => Len(m.inputs) \in 1 .. MaxBatch /\ m.base > 0
         /\ m.type = "Snapshot" =>
              /\ AllDistinct([i \in DOMAIN m.players |-> m.players[i].id])
              /\ AllDistinct([i \in DOMAIN m.bombs |-> m.bombs[i].cell])
              /\ AllDistinct([i \in DOMAIN m.powerups |-> m.powerups[i].cell])
         /\ m.type = "ExplosionResolved" =>
              /\ AllDistinct(m.blast) /\ \A i \in DOMAIN m.blast : m.blast[i] \in BoardCells
              /\ AllDistinct(m.bricks) /\ \A i \in DOMAIN m.bricks : m.bricks[i] \in Range(m.blast)
  <1>1. m \in Sendable /\ Shortened(m) = m
    BY Zenon DEF Sound
  <1>2. Received(Packet(m), handles) = m
    BY <1>1, AllTrip, PacketOf, Zenon DEF Trips
  <1>3. \/ m.type \notin {"Welcome", "MatchResult", "LobbyState", "Input", "Snapshot", "ExplosionResolved"}
        \/ m.type = "Welcome" /\ m \in WelcomeMsgs
        \/ m.type = "MatchResult" /\ m \in DrawMsgs \union WonMsgs
        \/ m.type = "LobbyState" /\ m \in LobbyStateMsgs
        \/ m.type = "Input" /\ m \in InputMsgs
        \/ m.type = "Snapshot" /\ m \in SnapshotMsgs
        \/ m.type = "ExplosionResolved" /\ m \in ExplosionMsgs
    <2>1. m \in RejectMsgs => m.type = "Reject"
      BY DEF RejectMsgs
    <2>2. m \in LevelInfoMsgs => m.type = "LevelInfo"
      BY DEF LevelInfoMsgs
    <2>3. m \in LobbyReadyMsgs => m.type = "LobbyReady"
      BY DEF LobbyReadyMsgs
    <2>4. m \in MatchIdMsgs => m.type \in {"MatchLoaded", "MatchCancelled"}
      BY DEF MatchIdMsgs
    <2>5. m \in MatchStartMsgs => m.type = "MatchStart"
      BY DEF MatchStartMsgs
    <2>6. m \in CorrectionMsgs => m.type = "Correction"
      BY DEF CorrectionMsgs
    <2>7. m \in BombPlacedMsgs => m.type = "BombPlaced"
      BY DEF BombPlacedMsgs
    <2>8. m \in HelloMsgs => m.type = "Hello"
      BY DEF HelloMsgs
    <2>9. m \in WelcomeMsgs => m.type = "Welcome"
      BY DEF WelcomeMsgs
    <2>10. m \in DrawMsgs \union WonMsgs => m.type = "MatchResult"
      BY DEF DrawMsgs, WonMsgs
    <2>11. m \in LobbyStateMsgs => m.type = "LobbyState"
      BY DEF LobbyStateMsgs
    <2>12. m \in InputMsgs => m.type = "Input"
      BY DEF InputMsgs
    <2>13. m \in SnapshotMsgs => m.type = "Snapshot"
      BY SnapshotParts, Zenon
    <2>14. m \in ExplosionMsgs => m.type = "ExplosionResolved"
      BY ExplosionParts, Zenon
    <2> DEFINE type == m.type
    <2> HIDE DEF type
    <2>15. m \in WelcomeMsgs \/ m \in RejectMsgs \/ m \in LevelInfoMsgs \/ m \in LobbyReadyMsgs \/ m \in MatchIdMsgs
           \/ m \in MatchStartMsgs \/ m \in CorrectionMsgs \/ m \in BombPlacedMsgs \/ m \in HelloMsgs
           \/ m \in DrawMsgs \union WonMsgs \/ m \in InputMsgs \/ m \in LobbyStateMsgs \/ m \in SnapshotMsgs
           \/ m \in ExplosionMsgs
      BY <1>1, Zenon DEF Sendable
    <2>. QED BY <2>1, <2>2, <2>3, <2>4, <2>5, <2>6, <2>7, <2>8, <2>9, <2>10, <2>11, <2>12, <2>13, <2>14, <2>15
  <1>4. m.type = "Welcome" => m.id \in PlayerIds /\ m.tickRate # 0
    BY <1>3 DEF WelcomeMsgs
  <1>5. m.type = "MatchResult" => (m.winner = NoWinner) = (m.name = <<>>)
    <2>1. CASE m \in DrawMsgs
      BY <2>1 DEF DrawMsgs
    <2>2. CASE m \in WonMsgs
      <3>1. m.winner \in PlayerIds /\ m.name # <<>>
        BY <2>2 DEF WonMsgs
      <3>. QED BY <3>1, Fits
    <2>. QED BY <1>3, <2>1, <2>2
  <1>6. m.type = "LobbyState" => (m.phase = Countdown) = (m.seconds > 0)
    BY <1>3 DEF LobbyStateMsgs
  <1>7. m.type = "Input" => Len(m.inputs) \in 1 .. MaxBatch /\ m.base > 0
    BY <1>3 DEF InputMsgs, Long
  <1>8. m.type = "Snapshot" =>
          /\ AllDistinct([i \in DOMAIN m.players |-> m.players[i].id])
          /\ AllDistinct([i \in DOMAIN m.bombs |-> m.bombs[i].cell])
          /\ AllDistinct([i \in DOMAIN m.powerups |-> m.powerups[i].cell])
    <2>1. m.type = "Snapshot" => m \in SnapshotMsgs
      BY <1>3
    <2>. QED BY <2>1, SnapshotDistinct, Zenon
  <1>9. ASSUME m.type = "ExplosionResolved"
        PROVE  /\ AllDistinct(m.blast) /\ \A i \in DOMAIN m.blast : m.blast[i] \in BoardCells
               /\ AllDistinct(m.bricks) /\ \A i \in DOMAIN m.bricks : m.bricks[i] \in Range(m.blast)
    <2>1. m \in ExplosionMsgs
      BY <1>3, <1>9
    <2>2. /\ m.blast \in Seq(BoardCells) /\ m.bricks \in Seq(BoardCells) /\ Distinct(m.blast) /\ Distinct(m.bricks)
          /\ \A i \in DOMAIN m.bricks : \E j \in DOMAIN m.blast : m.bricks[i] = m.blast[j]
      BY <2>1, ExplosionParts, Zenon
    <2>3. \A i \in DOMAIN m.blast : m.blast[i] \in BoardCells
      BY <2>2
    <2>4. \A i \in DOMAIN m.bricks : m.bricks[i] \in Range(m.blast)
      BY <2>2, Zenon DEF Range
    <2>. QED BY <2>2, <2>3, <2>4, DistinctMeans, Zenon
  <1>. QED BY <1>2, <1>4, <1>5, <1>6, <1>7, <1>8, <1>9, Zenon

\* Whatever a packet holds, what a handler is given could have been sent as it is: its ids and cells can be
\* indexed with, no cell is listed twice, its names end within their field, a countdown has seconds left, and
\* only a real winner has a name.
THEOREM ReliableHolds == Spec => []HandlersMayRelyOnIt
  <1>1. ASSUME TripInv, received \notin {None, Rejected} PROVE received \in Sound /\ received.type \in MsgTypes \intersect HandledBy(sent)
    BY <1>1, Zenon DEF TripInv
  <1>2. TripInv => HandlersMayRelyOnIt
    BY <1>1, SoundIsReliable, Zenon DEF HandlersMayRelyOnIt
  <1>. QED BY <1>2, TripInvHolds, PTL
=============================================================================
