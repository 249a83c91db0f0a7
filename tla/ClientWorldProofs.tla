------------------------- MODULE ClientWorldProofs -------------------------
(***************************************************************************)
(* What is proved of a client's picture of the arena.                      *)
(*                                                                         *)
(* 1. The merge is a fold over a queue of any length.  FoldSteps unfolds   *)
(*    it, by an induction on the number of events taken from the fact that *)
(*    < is well founded on Nat, and FoldKeeps and Merged turn it into the  *)
(*    rule the rest uses: what each event keeps, the update keeps.         *)
(* 2. No bomb returns, however many events a tick has.  The invariant,     *)
(*    WorldInv, orders both channels by the fuse: a bomb is told of when   *)
(*    it is placed and exactly FuseTicks later, events come in the order   *)
(*    of their ticks, and no snapshot has a bomb whose fuse had burnt.  So *)
(*    once the explosion of a bomb has been applied, no event left to come *)
(*    places it, and a snapshot that has it is older than that explosion   *)
(*    and is refused.                                                      *)
(* 3. With one event a tick, the view is exact.  ExactInv says what the    *)
(*    view lacks: the server's bricks are the shown ones without those the *)
(*    coming events destroy, a cell no coming event is about shows what    *)
(*    the server has there, and a snapshot that may be used is as good in  *)
(*    every cell no later event is about.  When no event is left to come,  *)
(*    view and server agree.                                               *)
(***************************************************************************)
EXTENDS ClientWorld, WellFoundedInduction, TLAPS

\* The gameplay events the client has yet to be shown, and the snapshots it
\* may yet apply.
Coming == pending \o eventsInFlight
Told(s) == s = latest \/ \E i \in 1 .. Len(snapshotsInFlight) : s = snapshotsInFlight[i]

Typed == TypeOK /\ (broken => pending = <<>>)

\* A bomb is told of when it is placed and when its fuse has burnt.
Timed(e) == e.tick = e.bomb.placed + (IF e.type = "BombPlaced" THEN 0 ELSE FuseTicks)

\* Every bomb of the server's is still burning, and is alone in its cell.
FusesInv ==
  /\ \A b \in bombs : b.placed <= serverTick /\ serverTick < b.placed + FuseTicks
  /\ \A b, d \in bombs : b.cell = d.cell => b = d

\* Events come in the order of their ticks.
EventsInv ==
  /\ \A i \in 1 .. Len(Coming) : Timed(Coming[i]) /\ Coming[i].tick <= serverTick
  /\ \A i, j \in 1 .. Len(Coming) : i < j => Coming[i].tick <= Coming[j].tick

\* No snapshot has a bomb whose fuse had burnt.
SnapshotsInv ==
  \A s \in Snapshots : Told(s) =>
    s.tick <= serverTick /\ \A b \in s.bombs : s.tick < b.placed + FuseTicks

\* A view to which the first k events have been applied.
Behind(view, k) ==
  view.event <= serverTick /\ \A i \in 1 .. Len(Coming) : i > k => view.event <= Coming[i].tick

\* The bombs seen to explode are gone, and so is the tick they exploded at.
Buried(view) ==
  view.bombs \cap view.exploded = {} /\ \A b \in view.exploded : b.placed + FuseTicks <= view.event

ReturnsInv == Behind(View, 0) /\ Buried(View)

\* Not a word on a cell, or on a brick, after the first k events.
Silent(cell, k) == \A i \in 1 .. Len(Coming) : i > k => Coming[i].bomb.cell # cell
Gone(event) == IF event.type = "ExplosionResolved" THEN event.destroyed ELSE {}
Spared(brick, k) == \A i \in 1 .. Len(Coming) : i > k => brick \notin Gone(Coming[i])

\* A snapshot the view may use is right about every cell no later event is about.
UpToDate(s, view, k) ==
  s.tick > view.event =>
    \A c \in Cells :
      (\A i \in 1 .. Len(Coming) : i > k /\ Coming[i].bomb.cell = c => Coming[i].tick <= s.tick) =>
        AtCell(s.bombs, c) = AtCell(bombs, c)

\* The view lacks what the events after the first k will tell, and nothing else.
StrictlyBehind(view, k) == \A i \in 1 .. Len(Coming) : i > k => view.event < Coming[i].tick
Exact(view, k) ==
  /\ StrictlyBehind(view, k)
  /\ bricks = {brick \in view.bricks : Spared(brick, k)}
  /\ \A c \in Cells : Silent(c, k) => AtCell(view.bombs, c) = AtCell(bombs, c)
  /\ \A s \in Snapshots : Told(s) => UpToDate(s, view, k)

\* The last event about a cell tells what is there now.
LastWord ==
  \A i \in 1 .. Len(Coming) : Silent(Coming[i].bomb.cell, i) =>
    AtCell(bombs, Coming[i].bomb.cell) =
      IF Coming[i].type = "BombPlaced" THEN {Coming[i].bomb} ELSE {}
InTurn == \A i, j \in 1 .. Len(Coming) : i < j => Coming[i].tick < Coming[j].tick

ExactInv == ~broken => Exact(View, 0) /\ LastWord /\ InTurn

-----------------------------------------------------------------------------
(* Induction, and what a fold computes. *)

\* Whatever holds of 0 and is handed on by every number holds of all.
LEMMA Induction ==
  ASSUME NEW S, 0 \in S, \A n \in Nat : n \in S => n + 1 \in S
  PROVE  \A n \in Nat : n \in S
  <1> DEFINE R == OpToRel(<, Nat)
             T == {n \in Nat : n \notin S}
  <1>1. IsWellFoundedOn(R, Nat)
    BY NatLessThanWellFounded
  <1>2. \A x, y \in Nat : y < x => <<y, x>> \in R
    BY DEF OpToRel
  <1>3. ASSUME NEW n \in T PROVE FALSE
    <2>1. T \subseteq Nat /\ T # {}
      BY <1>3
    <2> HIDE DEF R, T
    <2>2. PICK x \in T : \A y \in T : ~(<<y, x>> \in R)
      BY <1>1, <2>1, WFMin
    <2>3. x \in Nat /\ x \notin S
      BY DEF T
    <2>4. x # 0 /\ x - 1 \in Nat /\ x - 1 < x
      BY <2>3
    <2>5. x - 1 \notin T
      BY <1>2, <2>2, <2>3, <2>4
    <2>6. x - 1 \in S /\ (x - 1) + 1 = x
      BY <2>4, <2>5 DEF T
    <2>. QED BY <2>3, <2>4, <2>6
  <1>. QED BY <1>3

\* What is not exceeded in a set is its maximum.
LEMMA MaxIs == ASSUME NEW S \in SUBSET Nat, NEW m \in S, \A x \in S : m >= x PROVE Max(S) = m
  <1>1. \A x \in S : (\A y \in S : x >= y) => x = m
    OBVIOUS
  <1>. QED BY <1>1 DEF Max

\* The definition of FoldLeft, over the sets of indices up to n.
FoldOf(g, view, events, n) ==
  g = [u \in SUBSET (1 .. n) |->
         IF u = {} THEN view ELSE Consume(g[u \ {Max(u)}], events[Max(u)])]

\* There is a function over sets of indices as FoldLeft defines it.
LEMMA FoldExists ==
  ASSUME NEW view, NEW events
  PROVE  \A n \in Nat : \E g : FoldOf(g, view, events, n)
  <1> DEFINE S == {n \in Nat : \E g : FoldOf(g, view, events, n)}
  <1>1. 0 \in S
    <2> DEFINE g == [u \in SUBSET (1 .. 0) |-> view]
    <2>1. SUBSET (1 .. 0) = {{}}
      OBVIOUS
    <2>2. FoldOf(g, view, events, 0)
      BY <2>1 DEF FoldOf
    <2>. QED BY <2>2
  <1>2. ASSUME NEW n \in Nat, n \in S PROVE n + 1 \in S
    <2>1. PICK g : FoldOf(g, view, events, n)
      BY <1>2
    <2> DEFINE h == [u \in SUBSET (1 .. n + 1) |->
                       IF n + 1 \in u THEN Consume(g[u \ {n + 1}], events[n + 1]) ELSE g[u]]
    <2>h. /\ \A u \in SUBSET (1 .. n + 1) :
                h[u] = IF n + 1 \in u THEN Consume(g[u \ {n + 1}], events[n + 1]) ELSE g[u]
          /\ h = [u \in SUBSET (1 .. n + 1) |-> h[u]]
      OBVIOUS
    <2> HIDE DEF h
    <2>2. ASSUME NEW u \in SUBSET (1 .. n + 1)
          PROVE  h[u] = IF u = {} THEN view ELSE Consume(h[u \ {Max(u)}], events[Max(u)])
      <3>1. CASE n + 1 \in u
        <4>1. Max(u) = n + 1
          BY <3>1, MaxIs
        <4>2. u \ {n + 1} \in SUBSET (1 .. n + 1) /\ n + 1 \notin u \ {n + 1}
          OBVIOUS
        <4>3. h[u \ {n + 1}] = g[u \ {n + 1}]
          BY <2>h, <4>2, Zenon
        <4>4. h[u] = Consume(g[u \ {n + 1}], events[n + 1])
          BY <2>h, <3>1, Zenon
        <4>5. u # {} /\ u \ {Max(u)} = u \ {n + 1} /\ events[Max(u)] = events[n + 1]
          BY <3>1, <4>1
        <4>. QED BY <4>3, <4>4, <4>5, Zenon
      <3>2. CASE n + 1 \notin u
        <4>0. \A i \in 1 .. n + 1 : i # n + 1 => i \in 1 .. n
          OBVIOUS
        <4>1. u \in SUBSET (1 .. n) /\ u \ {Max(u)} \in SUBSET (1 .. n + 1) /\ n + 1 \notin u \ {Max(u)}
          BY <3>2, <4>0, Zenon
        <4>2. h[u] = g[u] /\ h[u \ {Max(u)}] = g[u \ {Max(u)}]
          BY <2>h, <3>2, <4>1
        <4>3. g[u] = IF u = {} THEN view ELSE Consume(g[u \ {Max(u)}], events[Max(u)])
          BY <2>1, <4>1 DEF FoldOf
        <4>. QED BY <4>2, <4>3
      <3>. QED BY <3>1, <3>2
    <2>3. FoldOf(h, view, events, n + 1)
      BY <2>h, <2>2 DEF FoldOf
    <2>. QED BY <2>3
  <1> HIDE DEF S
  <1>3. \A n \in Nat : n \in S
    BY <1>1, <1>2, Induction
  <1>. QED BY <1>3 DEF S

\* FoldLeft is such a function's value for all indices.
LEMMA FoldIsFold ==
  ASSUME NEW view, NEW events, NEW n \in Nat, DOMAIN events = 1 .. n
  PROVE  LET g == CHOOSE g : FoldOf(g, view, events, n) IN
           FoldOf(g, view, events, n) /\ FoldLeft(Consume, view, events) = g[1 .. n]
  <1> DEFINE g == CHOOSE g : FoldOf(g, view, events, n)
  <1>1. FoldOf(g, view, events, n)
    BY FoldExists
  <1>2. FoldLeft(Consume, view, events) = g[1 .. n]
    BY DEF FoldLeft, MapThenFoldSet, FoldOf
  <1>. QED BY <1>1, <1>2

\* FoldLeft takes the events in turn.
LEMMA FoldSteps ==
  ASSUME NEW view, NEW events \in Seq(Events)
  PROVE  \E f : /\ f[0] = view
                /\ \A k \in 1 .. Len(events) : f[k] = Consume(f[k - 1], events[k])
                /\ FoldLeft(Consume, view, events) = f[Len(events)]
  <1> DEFINE n == Len(events)
  <1>1. n \in Nat /\ DOMAIN events = 1 .. n
    OBVIOUS
  <1> HIDE DEF n
  <1>2. PICK g : FoldOf(g, view, events, n) /\ FoldLeft(Consume, view, events) = g[1 .. n]
    BY <1>1, FoldIsFold
  <1> DEFINE f == [k \in 0 .. n |-> g[1 .. k]]
  <1>3. f[0] = view
    <2>1. f[0] = g[1 .. 0] /\ 1 .. 0 = {} /\ 1 .. 0 \in SUBSET (1 .. n)
      BY <1>1
    <2>. QED BY <1>2, <2>1 DEF FoldOf
  <1>4. ASSUME NEW k \in 1 .. n PROVE f[k] = Consume(f[k - 1], events[k])
    <2>1. 1 .. k \in SUBSET (1 .. n) /\ 1 .. k # {} /\ k \in Nat /\ k >= 1
      BY <1>1
    <2>2. Max(1 .. k) = k
      <3>1. 1 .. k \in SUBSET Nat /\ k \in 1 .. k /\ \A x \in 1 .. k : k >= x
        BY <2>1
      <3>. QED BY <3>1, MaxIs
    <2>3. (1 .. k) \ {k} = 1 .. k - 1
      BY <2>1
    <2>4. f[k] = g[1 .. k] /\ f[k - 1] = g[1 .. k - 1]
      BY <1>1, <2>1
    <2>5. g[1 .. k] = IF 1 .. k = {} THEN view
                      ELSE Consume(g[(1 .. k) \ {Max(1 .. k)}], events[Max(1 .. k)])
      BY <1>2, <2>1 DEF FoldOf
    <2>6. g[1 .. k] = Consume(g[(1 .. k) \ {Max(1 .. k)}], events[Max(1 .. k)])
      BY <2>1, <2>5
    <2>. QED BY <2>2, <2>3, <2>4, <2>6
  <1>5. f[n] = g[1 .. n]
    BY <1>1
  <1> HIDE DEF f
  <1>. QED BY <1>2, <1>3, <1>4, <1>5 DEF n

-----------------------------------------------------------------------------
(* What one event does to a view. *)

Views == [bombs : SUBSET Bombs, bricks : SUBSET Bricks, snapshot : Nat, event : Nat,
          exploded : SUBSET Bombs]

\* The view the event meets: the snapshot may have come first.
Before(view, event) ==
  IF Usable(view) /\ event.tick >= latest.tick THEN ApplySnapshot(view) ELSE view

\* What a snapshot does to a view.
LEMMA SnapshotApplied ==
  ASSUME latest \in Snapshots, NEW v \in Views
  PROVE  /\ ApplySnapshot(v) \in Views
         /\ ApplySnapshot(v).bombs = latest.bombs
         /\ ApplySnapshot(v).event = v.event
         /\ ApplySnapshot(v).bricks = v.bricks
         /\ ApplySnapshot(v).exploded = v.exploded
  BY DEF ApplySnapshot, Views, Snapshots

\* The larger of two naturals.
LEMMA MaxOfTwo == ASSUME NEW a \in Nat, NEW b \in Nat PROVE Max({a, b}) = IF a <= b THEN b ELSE a
  <1>1. CASE a <= b
    <2>1. {a, b} \in SUBSET Nat /\ b \in {a, b} /\ \A x \in {a, b} : b >= x
      BY <1>1
    <2>. QED BY <1>1, <2>1, MaxIs
  <1>2. CASE ~(a <= b)
    <2>1. {a, b} \in SUBSET Nat /\ a \in {a, b} /\ \A x \in {a, b} : a >= x
      BY <1>2
    <2>. QED BY <1>2, <2>1, MaxIs
  <1>. QED BY <1>1, <1>2

ShowsPlaced(v, w, e) ==
  /\ e.type = "BombPlaced"
  /\ w.bombs = (v.bombs \ AtCell(v.bombs, e.bomb.cell)) \cup {e.bomb}
  /\ w.event = (IF v.event <= e.tick THEN e.tick ELSE v.event)
  /\ w.bricks = v.bricks /\ w.exploded = v.exploded
ShowsExploded(v, w, e) ==
  /\ e.type = "ExplosionResolved" /\ v.event < e.tick
  /\ w.bombs = v.bombs \ AtCell(v.bombs, e.bomb.cell)
  /\ w.event = e.tick
  /\ w.bricks = v.bricks \ e.destroyed /\ w.exploded = v.exploded \cup {e.bomb}
Skips(v, w, e) == e.type = "ExplosionResolved" /\ e.tick <= v.event /\ w = v

\* What an event does to a view, by its type and tick.
LEMMA EventApplied ==
  ASSUME NEW v \in Views, NEW e \in Events
  PROVE  LET w == ApplyGameplayEvent(v, e) IN
         w \in Views /\ (ShowsPlaced(v, w, e) \/ ShowsExploded(v, w, e) \/ Skips(v, w, e))
  <1>1. /\ v.event \in Nat /\ e.tick \in Nat /\ e.bomb \in Bombs /\ e.destroyed \subseteq Bricks
        /\ e.type \in {"BombPlaced", "ExplosionResolved"}
        /\ v.bombs \subseteq Bombs /\ v.bricks \subseteq Bricks /\ v.exploded \subseteq Bombs
    BY DEF Views, Events
  <1>2. CASE e.type = "BombPlaced"
    <2>1. ApplyGameplayEvent(v, e) =
            [v EXCEPT !.bombs = (v.bombs \ AtCell(v.bombs, e.bomb.cell)) \cup {e.bomb},
                      !.event = IF v.event <= e.tick THEN e.tick ELSE v.event]
      BY <1>1, <1>2, MaxOfTwo DEF ApplyGameplayEvent
    <2>2. (v.bombs \ AtCell(v.bombs, e.bomb.cell)) \cup {e.bomb} \in SUBSET Bombs
      BY <1>1
    <2>3. (IF v.event <= e.tick THEN e.tick ELSE v.event) \in Nat
      BY <1>1
    <2>. QED BY <1>2, <2>1, <2>2, <2>3 DEF Views, ShowsPlaced
  <1>3. CASE e.type = "ExplosionResolved" /\ e.tick <= v.event
    BY <1>3 DEF ApplyGameplayEvent, Skips
  <1>4. CASE e.type = "ExplosionResolved" /\ v.event < e.tick
    <2>1. ApplyGameplayEvent(v, e) =
            [v EXCEPT !.bombs = v.bombs \ AtCell(v.bombs, e.bomb.cell),
                      !.bricks = v.bricks \ e.destroyed,
                      !.event = e.tick, !.exploded = v.exploded \cup {e.bomb}]
      BY <1>1, <1>4 DEF ApplyGameplayEvent
    <2>2. /\ v.bombs \ AtCell(v.bombs, e.bomb.cell) \in SUBSET Bombs
          /\ v.exploded \cup {e.bomb} \in SUBSET Bombs /\ v.bricks \ e.destroyed \in SUBSET Bricks
      BY <1>1
    <2>. QED BY <1>1, <1>4, <2>1, <2>2 DEF Views, ShowsExploded
  <1>. QED BY <1>1, <1>2, <1>3, <1>4

\* What a turn of the merge's loop does to a view.
LEMMA Consumed ==
  ASSUME latest \in Snapshots, NEW v \in Views, NEW e \in Events
  PROVE  LET b == Before(v, e)
             w == Consume(v, e)
         IN  /\ w \in Views /\ b \in Views
             /\ ShowsPlaced(b, w, e) \/ ShowsExploded(b, w, e) \/ Skips(b, w, e)
             /\ b.event = v.event /\ b.bricks = v.bricks /\ b.exploded = v.exploded
             /\ b.bombs = v.bombs \/ (Usable(v) /\ b.bombs = latest.bombs)
  <1>1. /\ Before(v, e) \in Views
        /\ Before(v, e).event = v.event /\ Before(v, e).bricks = v.bricks
        /\ Before(v, e).exploded = v.exploded
        /\ Before(v, e).bombs = v.bombs \/ (Usable(v) /\ Before(v, e).bombs = latest.bombs)
    BY SnapshotApplied DEF Before
  <1>2. Consume(v, e) = ApplyGameplayEvent(Before(v, e), e)
    BY DEF Consume, Before
  <1>. QED BY <1>1, <1>2, EventApplied

-----------------------------------------------------------------------------
(* The steps, by what they do to what is still to come. *)

\* What is still to come, by where it waits.
LEMMA ComingTyped ==
  ASSUME Typed
  PROVE  /\ Coming \in Seq(Events) /\ Len(Coming) = Len(pending) + Len(eventsInFlight)
         /\ Len(Coming) \in Nat /\ Len(pending) \in Nat /\ Len(pending) <= Len(Coming)
         /\ \A i \in 1 .. Len(Coming) :
              /\ Coming[i] \in Events /\ Coming[i].tick \in Nat /\ Coming[i].bomb \in Bombs
              /\ Coming[i].bomb.cell \in Cells /\ Coming[i].bomb.placed \in Nat
              /\ Coming[i].type \in {"BombPlaced", "ExplosionResolved"}
         /\ \A i \in 1 .. Len(pending) : Coming[i] = pending[i]
         /\ \A i \in 1 .. Len(eventsInFlight) : Coming[i + Len(pending)] = eventsInFlight[i]
  <1>1. pending \in Seq(Events) /\ eventsInFlight \in Seq(Events)
    BY DEF Typed, TypeOK
  <1>2. /\ Coming \in Seq(Events) /\ Len(Coming) = Len(pending) + Len(eventsInFlight)
        /\ Len(Coming) \in Nat /\ Len(pending) \in Nat /\ Len(pending) <= Len(Coming)
        /\ \A i \in 1 .. Len(pending) : Coming[i] = pending[i]
        /\ \A i \in 1 .. Len(eventsInFlight) : Coming[i + Len(pending)] = eventsInFlight[i]
    BY <1>1 DEF Coming
  <1>3. \A i \in 1 .. Len(Coming) : Coming[i] \in Events
    BY <1>2
  <1>. QED BY <1>2, <1>3 DEF Events, Bombs

\* The first d events are gone.
Shifts(d) ==
  /\ d \in 0 .. Len(Coming) /\ Len(Coming') = Len(Coming) - d
  /\ \A i \in 1 .. Len(Coming') : i + d \in 1 .. Len(Coming) /\ Coming'[i] = Coming[i + d]

\* A step of the client's, with no word of the server's arena changed ...
SameServer == UNCHANGED <<serverTick, bombs, bricks>>
SameView == UNCHANGED <<shownBombs, shownBricks, lastSnapshot, lastEvent, exploded>>

Passes == SameServer /\ SameView /\ (broken => broken')
\* ... that takes an event in, takes or loses a snapshot, or shows what was queued.
Receives == Passes /\ UNCHANGED latest /\ (broken' \/ Shifts(0)) /\ UNCHANGED snapshotsInFlight
                   /\ \E d \in 0 .. Len(Coming) : Shifts(d)
Hears ==
  /\ Passes /\ UNCHANGED <<pending, broken, eventsInFlight>>
  /\ \A s : Told(s)' => Told(s)
Shows ==
  /\ ~broken /\ SameServer /\ Shifts(Len(pending))
  /\ UNCHANGED <<broken, latest, snapshotsInFlight>> /\ pending' = <<>>
  /\ View' = Merge(View, pending)

\* Where neither queue changes, nothing that is to come does.
LEMMA ShiftsNone ==
  ASSUME Typed, UNCHANGED <<pending, eventsInFlight>>
  PROVE  Shifts(0)
  <1>1. UNCHANGED Coming
    BY DEF Coming
  <1>. QED BY <1>1, ComingTyped DEF Shifts

\* An event taken in stays to come, unless the stream is broken.
LEMMA ReceiveCase ==
  ASSUME Typed, ReceiveGameplayEvent
  PROVE  Receives /\ Typed'
  <1>1. /\ eventsInFlight \in Seq(Events) /\ eventsInFlight # <<>> /\ pending \in Seq(Events)
        /\ eventsInFlight' = Tail(eventsInFlight)
        /\ EnqueueGameplayEvent(Head(eventsInFlight)) /\ broken \in BOOLEAN
        /\ broken => pending = <<>>
        /\ MaxPending \in Nat /\ MaxPending > 0
    BY TicksAssumption DEF ReceiveGameplayEvent, Typed, TypeOK
  <1>2. Passes /\ UNCHANGED <<latest, snapshotsInFlight, left>>
    BY <1>1 DEF ReceiveGameplayEvent, EnqueueGameplayEvent, Passes, SameServer, SameView, serverVars, sceneVars
  <1>3. /\ eventsInFlight' \in Seq(Events) /\ Len(eventsInFlight') = Len(eventsInFlight) - 1
        /\ Len(eventsInFlight) \in Nat /\ Len(eventsInFlight) > 0 /\ Head(eventsInFlight) \in Events
        /\ Head(eventsInFlight) = eventsInFlight[1]
        /\ \A i \in 1 .. Len(eventsInFlight') : eventsInFlight'[i] = eventsInFlight[i + 1]
    BY <1>1
  <1>4. CASE broken \/ Len(pending) >= MaxPending
    <2>1. pending' = <<>> /\ broken'
      BY <1>1, <1>4 DEF EnqueueGameplayEvent
    <2>2. Typed'
      <3>1. <<>> \in Seq(Events) /\ Len(<<>>) <= MaxPending
        BY <1>1
      <3>2. pending' \in Seq(Events) /\ Len(pending') <= MaxPending /\ broken' \in BOOLEAN
        BY <1>1, <2>1, <3>1 DEF EnqueueGameplayEvent
      <3>. QED BY <1>2, <1>3, <2>1, <3>2 DEF Typed, TypeOK, Passes, SameServer, SameView
    <2>3. Coming' = eventsInFlight'
      BY <1>3, <2>1 DEF Coming
    <2>4. Shifts(Len(pending) + 1)
      <3>1. Len(pending) \in Nat
        BY <1>1
      <3> DEFINE d == Len(pending) + 1
      <3>2. /\ d \in 0 .. Len(Coming) /\ Len(Coming) = Len(pending) + Len(eventsInFlight)
            /\ Len(Coming') = Len(Coming) - d
        <4>1. Len(Coming) = Len(pending) + Len(eventsInFlight)
          BY ComingTyped
        <4>2. Len(Coming') = Len(eventsInFlight')
          BY <2>3
        <4>. QED BY <1>3, <3>1, <4>1, <4>2
      <3>3. ASSUME NEW i \in 1 .. Len(Coming')
            PROVE  i + d \in 1 .. Len(Coming) /\ Coming'[i] = Coming[i + d]
        <4>1. /\ i + 1 \in 1 .. Len(eventsInFlight) /\ (i + 1) + Len(pending) = i + d
              /\ i + d \in 1 .. Len(Coming)
          BY <1>3, <2>3, <3>1, <3>2
        <4>2. Coming[(i + 1) + Len(pending)] = eventsInFlight[i + 1]
          BY <4>1, ComingTyped
        <4>3. Coming'[i] = eventsInFlight[i + 1]
          BY <1>3, <2>3
        <4>. QED BY <4>1, <4>2, <4>3
      <3>. QED BY <3>2, <3>3 DEF Shifts
    <2>5. Len(pending) + 1 \in 0 .. Len(Coming)
      BY <2>4 DEF Shifts
    <2>. QED BY <1>2, <2>1, <2>2, <2>4, <2>5 DEF Receives
  <1>5. CASE ~broken /\ Len(pending) < MaxPending
    <2>1. pending' = Append(pending, eventsInFlight[1]) /\ UNCHANGED broken
      BY <1>1, <1>3, <1>5 DEF EnqueueGameplayEvent
    <2>2. Typed'
      <3>1. pending' \in Seq(Events) /\ Len(pending') <= MaxPending /\ broken' \in BOOLEAN
        BY <1>1, <1>3, <1>5, <2>1
      <3>. QED BY <1>2, <1>3, <1>5, <2>1, <3>1 DEF Typed, TypeOK, Passes, SameServer, SameView
    <2>3. Coming' = Coming
      <3>1. pending' \in Seq(Events) /\ eventsInFlight' \in Seq(Events)
        BY <1>3, <2>2 DEF Typed, TypeOK
      <3>2. Coming' \in Seq(Events) /\ Coming \in Seq(Events) /\ Len(Coming') = Len(Coming)
        BY <1>1, <1>3, <2>1, <3>1 DEF Coming
      <3>p. Len(pending) \in Nat /\ Len(pending') = Len(pending) + 1
        BY <1>1, <1>3, <2>1
      <3>3. ASSUME NEW i \in 1 .. Len(Coming) PROVE Coming'[i] = Coming[i]
        <4>1. CASE i <= Len(pending)
          BY <1>1, <1>3, <2>1, <3>1, <4>1 DEF Coming
        <4>2. CASE i = Len(pending) + 1
          <5>1. Coming'[i] = pending'[i] /\ pending'[i] = eventsInFlight[1]
            BY <1>1, <1>3, <2>1, <3>1, <3>p, <4>2 DEF Coming
          <5>2. Coming[i] = eventsInFlight[1]
            BY <1>1, <1>3, <3>p, <4>2 DEF Coming
          <5>. QED BY <5>1, <5>2
        <4>3. CASE i > Len(pending) + 1
          <5> DEFINE j == i - Len(pending) - 1
          <5>1. j \in 1 .. Len(eventsInFlight') /\ j + 1 \in 1 .. Len(eventsInFlight)
                /\ j + Len(pending') = i /\ (j + 1) + Len(pending) = i
            BY <1>1, <1>3, <3>2, <3>p, <4>3, ComingTyped
          <5>2. Coming'[j + Len(pending')] = eventsInFlight'[j]
            BY <3>1, <5>1 DEF Coming
          <5>3. Coming[(j + 1) + Len(pending)] = eventsInFlight[j + 1]
            BY <5>1, ComingTyped
          <5>. QED BY <1>3, <5>1, <5>2, <5>3
        <4>. QED BY <3>p, <3>2, <4>1, <4>2, <4>3
      <3>. QED BY <3>2, <3>3
    <2>4. Shifts(0) /\ 0 \in 0 .. Len(Coming)
      BY <2>3, ComingTyped DEF Shifts
    <2>. QED BY <1>2, <2>2, <2>4 DEF Receives
  <1>. QED BY <1>1, <1>4, <1>5

\* A snapshot that is lost or received brings no other.
LEMMA HearCase ==
  ASSUME Typed, LoseSnapshot \/ ReceiveSnapshot
  PROVE  Hears /\ Typed'
  <1>1. /\ snapshotsInFlight \in Seq(Snapshots) /\ snapshotsInFlight # <<>>
        /\ snapshotsInFlight' = Tail(snapshotsInFlight)
        /\ latest' \in {latest, Head(snapshotsInFlight)}
    BY DEF LoseSnapshot, ReceiveSnapshot, queueVars, Typed, TypeOK
  <1>2. /\ snapshotsInFlight' \in Seq(Snapshots) /\ Len(snapshotsInFlight) \in Nat
        /\ Len(snapshotsInFlight) > 0
        /\ Len(snapshotsInFlight') = Len(snapshotsInFlight) - 1
        /\ Head(snapshotsInFlight) = snapshotsInFlight[1] /\ Head(snapshotsInFlight) \in Snapshots
        /\ \A i \in 1 .. Len(snapshotsInFlight') : snapshotsInFlight'[i] = snapshotsInFlight[i + 1]
    BY <1>1
  <1>3. UNCHANGED <<serverTick, bombs, bricks, eventsInFlight, pending, broken, shownBombs, shownBricks,
                    lastSnapshot, lastEvent, left, exploded>>
    BY DEF LoseSnapshot, ReceiveSnapshot, serverVars, queueVars, sceneVars
  <1>4. Typed'
    <2>1. latest' \in Snapshots
      BY <1>1, <1>2 DEF Typed, TypeOK
    <2>. QED BY <1>2, <1>3, <2>1 DEF Typed, TypeOK
  <1>5. ASSUME NEW s, Told(s)' PROVE Told(s)
    <2>1. 1 \in 1 .. Len(snapshotsInFlight)
      BY <1>2
    <2>2. \A i \in 1 .. Len(snapshotsInFlight') : i + 1 \in 1 .. Len(snapshotsInFlight)
      BY <1>2
    <2>. QED BY <1>1, <1>2, <1>5, <2>1, <2>2 DEF Told
  <1>. QED BY <1>3, <1>4, <1>5 DEF Hears, Passes, SameServer, SameView

\* What holds of the view at first and is kept by every event holds in the end.
LEMMA FoldKeeps ==
  ASSUME NEW view, NEW events \in Seq(Events), NEW Good, view \in Good[0],
         \A k \in 1 .. Len(events) : \A v \in Good[k - 1] : Consume(v, events[k]) \in Good[k]
  PROVE  FoldLeft(Consume, view, events) \in Good[Len(events)]
  <1>1. PICK f : /\ f[0] = view
                 /\ \A k \in 1 .. Len(events) : f[k] = Consume(f[k - 1], events[k])
                 /\ FoldLeft(Consume, view, events) = f[Len(events)]
    BY FoldSteps
  <1>2. Len(events) \in Nat
    OBVIOUS
  <1> DEFINE S == {k \in Nat : k <= Len(events) => f[k] \in Good[k]}
  <1>3. 0 \in S
    BY <1>1
  <1>4. ASSUME NEW n \in Nat, n \in S PROVE n + 1 \in S
    <2>1. CASE n + 1 <= Len(events)
      <3>1. n + 1 \in 1 .. Len(events) /\ (n + 1) - 1 = n /\ n <= Len(events)
        BY <1>2, <2>1
      <3>2. f[n] \in Good[n] /\ f[n + 1] = Consume(f[n], events[n + 1])
        BY <1>1, <1>4, <3>1
      <3>3. f[n + 1] \in Good[n + 1]
        BY <3>1, <3>2
      <3>. QED BY <3>3
    <2>2. CASE ~(n + 1 <= Len(events))
      BY <2>2
    <2>. QED BY <2>1, <2>2
  <1> HIDE DEF S
  <1>5. Len(events) \in S
    BY <1>2, <1>3, <1>4, Induction
  <1>. QED BY <1>1, <1>2, <1>5 DEF S

\* The view is typed, and its fields are the variables.
LEMMA ViewTyped ==
  ASSUME Typed
  PROVE  /\ View \in Views /\ View.bombs = shownBombs /\ View.bricks = shownBricks
         /\ View.snapshot = lastSnapshot /\ View.event = lastEvent /\ View.exploded = exploded
  BY DEF Typed, TypeOK, View, Views

\* The view after all events, and then, if it is still to come, the snapshot.
LEMMA Merged ==
  ASSUME Typed, NEW Good, View \in Good[0], \A k \in 0 .. Len(pending) : Good[k] \subseteq Views,
         \A k \in 1 .. Len(pending) : \A v \in Good[k - 1] : Consume(v, pending[k]) \in Good[k]
  PROVE  \E v \in Good[Len(pending)] :
           /\ Merge(View, pending) \in Views
           /\ Merge(View, pending).event = v.event /\ Merge(View, pending).bricks = v.bricks
           /\ Merge(View, pending).exploded = v.exploded
           /\ \/ Merge(View, pending).bombs = v.bombs
              \/ Usable(v) /\ Merge(View, pending).bombs = latest.bombs
  <1>1. pending \in Seq(Events) /\ latest \in Snapshots
    BY DEF Typed, TypeOK
  <1> DEFINE v == FoldLeft(Consume, View, pending)
  <1>a. FoldLeft(Consume, View, pending) \in Good[Len(pending)]
    BY <1>1, FoldKeeps, Zenon
  <1>b. Len(pending) \in 0 .. Len(pending)
    BY <1>1
  <1>2. v \in Good[Len(pending)] /\ Len(pending) \in 0 .. Len(pending)
    BY <1>a, <1>b
  <1>3. v \in Views
    BY <1>2
  <1>4. Merge(View, pending) = IF Usable(v) THEN ApplySnapshot(v) ELSE v
    BY DEF Merge
  <1> HIDE DEF v
  <1>5. CASE Usable(v)
    BY <1>1, <1>2, <1>3, <1>4, <1>5, SnapshotApplied
  <1>6. CASE ~Usable(v)
    BY <1>2, <1>3, <1>4, <1>6
  <1>. QED BY <1>5, <1>6

\* The merge gives a view.
LEMMA MergeTyped == ASSUME Typed PROVE Merge(View, pending) \in Views
  <1> DEFINE Good == [k \in 0 .. Len(pending) |-> Views]
  <1>1. pending \in Seq(Events) /\ latest \in Snapshots /\ Len(pending) \in Nat
    BY DEF Typed, TypeOK
  <1>2. View \in Good[0] /\ \A k \in 0 .. Len(pending) : Good[k] \subseteq Views
    BY <1>1, ViewTyped
  <1>3. ASSUME NEW k \in 1 .. Len(pending), NEW v \in Good[k - 1] PROVE Consume(v, pending[k]) \in Good[k]
    <2>1. v \in Views /\ pending[k] \in Events
      BY <1>1
    <2>2. Consume(v, pending[k]) \in Views
      BY <1>1, <2>1, Consumed
    <2>. QED BY <1>1, <2>2
  <1> HIDE DEF Good
  <1>. QED BY <1>2, <1>3, Merged

\* An update shows what was queued, or leaves.
LEMMA UpdateCase ==
  ASSUME Typed, UpdateLevel
  PROVE  (Shows \/ Hears) /\ Typed'
  <1>1. UNCHANGED <<serverTick, bombs, bricks, eventsInFlight, snapshotsInFlight, broken, latest>>
    BY DEF UpdateLevel, serverVars
  <1>2. CASE broken
    <2>1. /\ left' = TRUE
          /\ UNCHANGED <<pending, shownBombs, shownBricks, lastSnapshot, lastEvent, exploded>>
      BY <1>2 DEF UpdateLevel
    <2>2. Typed'
      BY <1>1, <2>1 DEF Typed, TypeOK
    <2>3. Hears
      BY <1>1, <2>1 DEF Hears, Passes, SameServer, SameView, Told
    <2>. QED BY <2>2, <2>3
  <1>3. CASE ~broken
    <2> DEFINE view == Merge(View, pending)
    <2>1. /\ pending' = <<>>
          /\ shownBombs' = view.bombs /\ shownBricks' = view.bricks
          /\ lastSnapshot' = view.snapshot /\ lastEvent' = view.event
          /\ exploded' = view.exploded
          /\ UNCHANGED left
      BY <1>3 DEF UpdateLevel
    <2>2. view \in Views
      BY MergeTyped
    <2> HIDE DEF view
    <2>3. /\ shownBombs' \subseteq Bombs /\ shownBricks' \subseteq Bricks
          /\ lastSnapshot' \in Nat /\ lastEvent' \in Nat /\ exploded' \subseteq Bombs
      BY <2>1, <2>2 DEF Views
    <2>4. <<>> \in Seq(Events) /\ Len(<<>>) <= MaxPending
      BY TicksAssumption
    <2>5. Typed'
      BY <1>1, <2>1, <2>3, <2>4 DEF Typed, TypeOK
    <2>6. View' = view
      BY <2>1, <2>2 DEF View, Views
    <2>7. Coming' = eventsInFlight
      BY <1>1, <2>1, <2>5 DEF Coming, Typed, TypeOK
    <2>8. Shifts(Len(pending))
      <3>1. /\ Len(pending) \in 0 .. Len(Coming) /\ Len(Coming') = Len(Coming) - Len(pending)
            /\ Len(Coming') = Len(eventsInFlight) /\ Len(Coming) = Len(pending) + Len(eventsInFlight)
            /\ Len(pending) \in Nat
        <4>1. /\ Len(Coming) = Len(pending) + Len(eventsInFlight) /\ Len(pending) \in Nat
              /\ Len(eventsInFlight) \in Nat
          BY ComingTyped DEF Typed, TypeOK
        <4>. QED BY <2>7, <4>1
      <3>2. ASSUME NEW i \in 1 .. Len(Coming')
            PROVE  i + Len(pending) \in 1 .. Len(Coming) /\ Coming'[i] = Coming[i + Len(pending)]
        <4>1. i + Len(pending) \in 1 .. Len(Coming) /\ i \in 1 .. Len(eventsInFlight)
          BY <3>1
        <4>. QED BY <2>7, <4>1, ComingTyped
      <3>. QED BY <3>1, <3>2 DEF Shifts
    <2>9. Shows
      BY <1>1, <1>3, <2>1, <2>6, <2>8 DEF Shows, SameServer, view
    <2>. QED BY <2>5, <2>9
  <1>. QED BY <1>2, <1>3

\* A tick's bombs in order are its bombs.
LEMMA Ordered ==
  ASSUME NEW S, NEW order \in ByCell(S)
  PROVE  /\ order \in Seq(S) /\ Len(order) \in Nat /\ Len(order) <= MaxEventsPerTick
         /\ \A i \in 1 .. Len(order) : order[i] \in S
         /\ \A b \in S : \E i \in 1 .. Len(order) : order[i] = b
  <1>1. MaxEventsPerTick \in Nat
    BY BoundsAssumption
  <1>2. PICK m \in 0 .. MaxEventsPerTick : order \in [1 .. m -> S]
    BY DEF ByCell, SeqOf
  <1>3. order \in Seq(S) /\ Len(order) = m /\ m \in Nat /\ m <= MaxEventsPerTick /\ DOMAIN order = 1 .. m
    BY <1>1, <1>2
  <1>. QED BY <1>2, <1>3 DEF ByCell

\* The server's tick, by the bombs it places and those it sets off.
Due == {b \in bombs : b.placed + FuseTicks <= serverTick + 1}
Placed(free) == {[cell |-> c, placed |-> serverTick + 1] : c \in free}
Ticks(free, places, blasts) ==
  /\ serverTick' = serverTick + 1
  /\ free \subseteq Cells \ {b.cell : b \in bombs}
  /\ places \in ByCell(Placed(free)) /\ blasts \in ByCell(Due)
  /\ Len(places) + Len(blasts) <= MaxEventsPerTick
  /\ bombs' = (bombs \cup Placed(free)) \ Due
  /\ bricks' = bricks \ UNION {Reach[b.cell] : b \in Due}
  /\ eventsInFlight' = eventsInFlight \o Placements(serverTick + 1, places)
                                      \o Explosions(serverTick + 1, blasts)
  /\ snapshotsInFlight' \in {snapshotsInFlight,
                             Append(snapshotsInFlight, [tick |-> serverTick + 1, bombs |-> bombs'])}
  /\ SameView /\ UNCHANGED <<pending, broken, latest, left>>

\* A server tick, by the bombs it places and those it sets off.
LEMMA TickTaken == ASSUME ServerTick PROVE \E free, places, blasts : Ticks(free, places, blasts)
  <1>1. PICK free \in SUBSET (Cells \ {b.cell : b \in bombs}) :
          /\ bombs' = (bombs \cup Placed(free)) \ Due
          /\ bricks' = bricks \ UNION {Reach[b.cell] : b \in Due}
          /\ \E places \in ByCell(Placed(free)), blasts \in ByCell(Due) :
               /\ Len(places) + Len(blasts) <= MaxEventsPerTick
               /\ eventsInFlight' = eventsInFlight \o Placements(serverTick + 1, places)
                                      \o Explosions(serverTick + 1, blasts)
    BY DEF ServerTick, Placed, Due
  <1>2. PICK places \in ByCell(Placed(free)), blasts \in ByCell(Due) :
               /\ Len(places) + Len(blasts) <= MaxEventsPerTick
               /\ eventsInFlight' = eventsInFlight \o Placements(serverTick + 1, places)
                                      \o Explosions(serverTick + 1, blasts)
    BY <1>1
  <1>3. /\ serverTick' = serverTick + 1
        /\ snapshotsInFlight' \in {snapshotsInFlight,
                             Append(snapshotsInFlight, [tick |-> serverTick + 1, bombs |-> bombs'])}
        /\ SameView /\ UNCHANGED <<pending, broken, latest, left>>
    BY DEF ServerTick, SameView, queueVars, sceneVars
  <1>. QED BY <1>1, <1>2, <1>3 DEF Ticks

\* The bombs placed are of this tick, each in a free cell of its own.
LEMMA PlacedTyped ==
  ASSUME Typed, NEW free \in SUBSET (Cells \ {b.cell : b \in bombs})
  PROVE  /\ Placed(free) \subseteq Bombs
         /\ \A b \in Placed(free) : b.placed = serverTick + 1 /\ b.cell \in free /\ b.cell \in Cells
         /\ \A b \in Placed(free), d \in bombs : b.cell # d.cell
         /\ \A b, d \in Placed(free) : b.cell = d.cell => b = d
  <1>1. serverTick + 1 \in Nat
    BY DEF Typed, TypeOK
  <1>2. \A b \in Placed(free) : \E c \in free : b = [cell |-> c, placed |-> serverTick + 1]
    BY DEF Placed
  <1>3. \A c \in free : c \in Cells /\ [cell |-> c, placed |-> serverTick + 1] \in Bombs
    BY <1>1 DEF Bombs
  <1>. QED BY <1>2, <1>3

\* The bombs set off are those whose fuse ends with this tick.
LEMMA DueIs ==
  ASSUME Typed, FusesInv
  PROVE  /\ Due \subseteq bombs /\ Due \subseteq Bombs
         /\ \A b \in Due : b.placed + FuseTicks = serverTick + 1
         /\ \A b \in bombs \ Due : serverTick + 1 < b.placed + FuseTicks
  <1>1. FuseTicks \in Nat /\ serverTick \in Nat /\ bombs \subseteq Bombs
    BY TicksAssumption DEF Typed, TypeOK
  <1>2. \A b \in bombs : b.placed \in Nat /\ serverTick < b.placed + FuseTicks
    BY <1>1 DEF FusesInv, Bombs
  <1>3. \A b \in bombs : b \in Due <=> b.placed + FuseTicks <= serverTick + 1
    BY DEF Due
  <1>4. Due \subseteq bombs
    BY DEF Due
  <1>. QED BY <1>1, <1>2, <1>3, <1>4

\* A tick leaves burning fuses only.
LEMMA FusesKept ==
  ASSUME Typed, FusesInv, NEW free, NEW places, NEW blasts, Ticks(free, places, blasts)
  PROVE  FusesInv' /\ bombs' \subseteq Bombs
  <1>1. /\ free \in SUBSET (Cells \ {b.cell : b \in bombs}) /\ serverTick' = serverTick + 1
        /\ bombs' = (bombs \cup Placed(free)) \ Due /\ bombs \subseteq Bombs
        /\ FuseTicks \in Nat \ {0} /\ serverTick \in Nat
    BY TicksAssumption DEF Ticks, Typed, TypeOK
  <1>2. bombs' \subseteq Bombs
    BY <1>1, PlacedTyped
  <1>3. ASSUME NEW b \in bombs'
        PROVE  b.placed <= serverTick + 1 /\ serverTick + 1 < b.placed + FuseTicks
    <2>1. CASE b \in Placed(free)
      BY <1>1, <2>1, PlacedTyped
    <2>2. CASE b \in bombs \ Due
      <3>1. b.placed <= serverTick /\ b.placed \in Nat
        BY <1>1, <2>2 DEF FusesInv, Bombs
      <3>. QED BY <1>1, <2>2, <3>1, DueIs
    <2>. QED BY <1>1, <2>1, <2>2
  <1>4. ASSUME NEW b \in bombs', NEW d \in bombs', b.cell = d.cell PROVE b = d
    <2>1. (b \in bombs \/ b \in Placed(free)) /\ (d \in bombs \/ d \in Placed(free))
      BY <1>1
    <2>. QED BY <1>1, <1>4, <2>1, PlacedTyped DEF FusesInv
  <1>. QED BY <1>1, <1>2, <1>3, <1>4 DEF FusesInv

\* What the two kinds of event say.
LEMMA EventsMade ==
  ASSUME NEW tick \in Nat, NEW b \in Bombs, NEW d \in SUBSET Bricks
  PROVE  /\ BombPlaced(tick, b) \in Events /\ ExplosionResolved(tick, b, d) \in Events
         /\ BombPlaced(tick, b).tick = tick /\ ExplosionResolved(tick, b, d).tick = tick
         /\ BombPlaced(tick, b).bomb = b /\ ExplosionResolved(tick, b, d).bomb = b
         /\ BombPlaced(tick, b).type = "BombPlaced"
         /\ ExplosionResolved(tick, b, d).type = "ExplosionResolved"
         /\ BombPlaced(tick, b).destroyed = {} /\ ExplosionResolved(tick, b, d).destroyed = d
  BY DEF BombPlaced, ExplosionResolved, Events

\* The events of the bombs placed.
LEMMA PlacementsMade ==
  ASSUME NEW tick \in Nat, NEW S \in SUBSET Bombs, NEW order \in ByCell(S)
  PROVE  /\ Placements(tick, order) \in Seq(Events)
         /\ Len(Placements(tick, order)) = Len(order)
         /\ \A i \in 1 .. Len(order) : Placements(tick, order)[i] = BombPlaced(tick, order[i])
  <1>1. Len(order) \in Nat /\ \A i \in 1 .. Len(order) : order[i] \in S
    BY Ordered
  <1>2. ASSUME NEW i \in 1 .. Len(order) PROVE BombPlaced(tick, order[i]) \in Events
    <2>1. order[i] \in Bombs
      BY <1>1
    <2>. QED BY <2>1, EventsMade
  <1>. QED BY <1>1, <1>2 DEF Placements

\* The bricks the i-th explosion of a tick destroys.
Takes(order, i) ==
  (Reach[order[i].cell] \cap bricks) \ UNION {Reach[order[j].cell] : j \in 1 .. i - 1}

\* The events of the explosions.
LEMMA ExplosionsMade ==
  ASSUME Typed, NEW tick \in Nat, NEW S \in SUBSET Bombs, NEW order \in ByCell(S)
  PROVE  /\ Explosions(tick, order) \in Seq(Events)
         /\ Len(Explosions(tick, order)) = Len(order)
         /\ \A i \in 1 .. Len(order) :
              /\ Takes(order, i) \in SUBSET Bricks
              /\ Explosions(tick, order)[i] = ExplosionResolved(tick, order[i], Takes(order, i))
  <1>1. Len(order) \in Nat /\ \A i \in 1 .. Len(order) : order[i] \in S
    BY Ordered
  <1>2. \A i \in 1 .. Len(order) : Takes(order, i) \in SUBSET Bricks
    BY DEF Takes, Typed, TypeOK
  <1>3. ASSUME NEW i \in 1 .. Len(order)
        PROVE  ExplosionResolved(tick, order[i], Takes(order, i)) \in Events
    <2>1. order[i] \in Bombs
      BY <1>1
    <2>. QED BY <2>1, <1>2, EventsMade
  <1>4. Explosions(tick, order) =
          [i \in 1 .. Len(order) |-> ExplosionResolved(tick, order[i], Takes(order, i))]
    BY DEF Explosions, Takes
  <1>. QED BY <1>1, <1>2, <1>3, <1>4

\* A queue joined from three.
JoinedIn(t, c, a, b) == t = c \o (a \o b)
\* Where each event of the three is.
PartsOf(t, c, a, b) ==
  /\ Len(t) = Len(c) + Len(a) + Len(b)
  /\ \A i \in 1 .. Len(c) : t[i] = c[i]
  /\ \A i \in 1 .. Len(a) : t[Len(c) + i] = a[i]
  /\ \A i \in 1 .. Len(b) : t[Len(c) + Len(a) + i] = b[i]

\* Four queues joined, in whichever order.
LEMMA JoinedTwice ==
  ASSUME NEW p \in Seq(Events), NEW f \in Seq(Events), NEW a \in Seq(Events), NEW b \in Seq(Events)
  PROVE  JoinedIn(p \o (f \o a \o b), p \o f, a, b)
  <1>1. f \o a \o b = f \o (a \o b)
    BY SMTT(30)
  <1>2. p \o (f \o (a \o b)) = (p \o f) \o (a \o b)
    BY SMTT(30)
  <1>. QED BY <1>1, <1>2 DEF JoinedIn

\* Each event of three queues joined is in its place.
LEMMA Joined ==
  ASSUME NEW c \in Seq(Events), NEW a \in Seq(Events), NEW b \in Seq(Events),
         NEW t, JoinedIn(t, c, a, b)
  PROVE  PartsOf(t, c, a, b)
  <1> DEFINE d == a \o b
  <1>0. t = c \o d
    BY DEF JoinedIn
  <1>1. /\ d \in Seq(Events) /\ Len(d) = Len(a) + Len(b) /\ Len(a) \in Nat /\ Len(b) \in Nat
        /\ Len(c) \in Nat
        /\ \A i \in 1 .. Len(a) : i \in 1 .. Len(d) /\ d[i] = a[i]
        /\ \A i \in 1 .. Len(b) : Len(a) + i \in 1 .. Len(d) /\ d[Len(a) + i] = b[i]
    OBVIOUS
  <1> HIDE DEF d
  <1>2. /\ Len(t) = Len(c) + Len(d)
        /\ \A i \in 1 .. Len(c) : t[i] = c[i]
        /\ \A i \in 1 .. Len(d) : t[Len(c) + i] = d[i]
    <2>1. d \in Seq(Events) /\ c \in Seq(Events) /\ Len(c) \in Nat /\ Len(d) \in Nat
      BY <1>1
    <2>2. Len(t) = Len(c) + Len(d)
      BY <1>0, <2>1
    <2>3. \A i \in 1 .. Len(c) : t[i] = c[i]
      BY <1>0, <2>1
    <2>4. ASSUME NEW i \in 1 .. Len(d) PROVE t[Len(c) + i] = d[i]
      BY <1>0, <2>1
    <2>. QED BY <2>2, <2>3, <2>4
  <1>3. Len(t) = Len(c) + Len(a) + Len(b)
    BY <1>1, <1>2
  <1>4. \A i \in 1 .. Len(a) : t[Len(c) + i] = a[i]
    BY <1>1, <1>2
  <1>5. \A i \in 1 .. Len(b) : t[Len(c) + Len(a) + i] = b[i]
    <2> SUFFICES ASSUME NEW i \in 1 .. Len(b) PROVE t[Len(c) + Len(a) + i] = b[i]
      OBVIOUS
    <2>1. Len(c) + (Len(a) + i) = Len(c) + Len(a) + i
      BY <1>1
    <2>2. Len(a) + i \in 1 .. Len(d) /\ d[Len(a) + i] = b[i]
      BY <1>1
    <2>3. t[Len(c) + (Len(a) + i)] = d[Len(a) + i]
      BY <1>2, <2>2
    <2>. QED BY <2>1, <2>2, <2>3
  <1>. QED BY <1>2, <1>3, <1>4, <1>5 DEF PartsOf

\* The events of a tick come after all others, the placements first.
LEMMA EventsSent ==
  ASSUME Typed, FusesInv, NEW free, NEW places, NEW blasts, Ticks(free, places, blasts)
  PROVE  /\ eventsInFlight' \in Seq(Events)
         /\ Len(Coming') = Len(Coming) + Len(places) + Len(blasts)
         /\ \A i \in 1 .. Len(Coming) : Coming'[i] = Coming[i]
         /\ \A i \in 1 .. Len(places) :
              Coming'[Len(Coming) + i] = BombPlaced(serverTick + 1, places[i])
         /\ \A i \in 1 .. Len(blasts) :
              /\ Takes(blasts, i) \in SUBSET Bricks
              /\ Coming'[Len(Coming) + Len(places) + i]
                   = ExplosionResolved(serverTick + 1, blasts[i], Takes(blasts, i))
  <1> DEFINE a == Placements(serverTick + 1, places)
             b == Explosions(serverTick + 1, blasts)
  <1>1. /\ pending \in Seq(Events) /\ eventsInFlight \in Seq(Events) /\ serverTick + 1 \in Nat
        /\ eventsInFlight' = eventsInFlight \o a \o b /\ UNCHANGED pending
        /\ places \in ByCell(Placed(free)) /\ blasts \in ByCell(Due)
        /\ free \in SUBSET (Cells \ {d.cell : d \in bombs})
    BY DEF Typed, TypeOK, Ticks
  <1>2. Placed(free) \in SUBSET Bombs /\ Due \in SUBSET Bombs
    BY <1>1, PlacedTyped, DueIs
  <1>3. /\ a \in Seq(Events) /\ Len(a) = Len(places)
        /\ \A i \in 1 .. Len(places) : a[i] = BombPlaced(serverTick + 1, places[i])
    BY <1>1, <1>2, PlacementsMade
  <1>4. /\ b \in Seq(Events) /\ Len(b) = Len(blasts)
        /\ \A i \in 1 .. Len(blasts) :
             /\ Takes(blasts, i) \in SUBSET Bricks
             /\ b[i] = ExplosionResolved(serverTick + 1, blasts[i], Takes(blasts, i))
    BY <1>1, <1>2, ExplosionsMade
  <1> HIDE DEF a, b
  <1>5. eventsInFlight' \in Seq(Events)
    BY <1>1, <1>3, <1>4
  <1>6. Coming \in Seq(Events) /\ JoinedIn(Coming', Coming, a, b)
    <2>1. /\ pending \in Seq(Events) /\ eventsInFlight \in Seq(Events)
          /\ a \in Seq(Events) /\ b \in Seq(Events)
      BY <1>1, <1>3, <1>4
    <2>2. JoinedIn(pending \o (eventsInFlight \o a \o b), pending \o eventsInFlight, a, b)
      BY ONLY <2>1, JoinedTwice, Zenon
    <2>3. Coming' = pending \o (eventsInFlight \o a \o b)
      BY <1>1, Zenon DEF Coming
    <2>4. Coming \in Seq(Events)
      BY <2>1 DEF Coming
    <2>. QED BY <2>2, <2>3, <2>4, Zenon DEF Coming
  <1>7. /\ Len(Coming') = Len(Coming) + Len(a) + Len(b)
        /\ \A i \in 1 .. Len(Coming) : Coming'[i] = Coming[i]
        /\ \A i \in 1 .. Len(a) : Coming'[Len(Coming) + i] = a[i]
        /\ \A i \in 1 .. Len(b) : Coming'[Len(Coming) + Len(a) + i] = b[i]
    <2>1. Coming \in Seq(Events) /\ a \in Seq(Events) /\ b \in Seq(Events)
      BY <1>3, <1>4, <1>6
    <2>2. PartsOf(Coming', Coming, a, b)
      BY ONLY <1>6, <2>1, Joined, Zenon
    <2>. QED BY ONLY <2>2, Zenon DEF PartsOf
  <1>8. \A i \in 1 .. Len(places) : Coming'[Len(Coming) + i] = BombPlaced(serverTick + 1, places[i])
    BY <1>3, <1>7, Zenon
  <1>9. \A i \in 1 .. Len(blasts) :
          Coming'[Len(Coming) + Len(places) + i]
            = ExplosionResolved(serverTick + 1, blasts[i], Takes(blasts, i))
    BY <1>3, <1>4, <1>7, Zenon
  <1>. QED BY <1>3, <1>4, <1>5, <1>7, <1>8, <1>9, Zenon

\* A tick, by what it adds to what is to come.
Grows ==
  /\ SameView /\ UNCHANGED <<pending, broken, latest>> /\ serverTick' = serverTick + 1
  /\ Len(Coming') \in Nat /\ Len(Coming) <= Len(Coming')
  /\ \A i \in 1 .. Len(Coming) : Coming'[i] = Coming[i]
  /\ \A i \in 1 .. Len(Coming') :
       i > Len(Coming) => Coming'[i].tick = serverTick + 1 /\ Timed(Coming'[i])
  /\ \A s : Told(s)' => Told(s) \/ s = [tick |-> serverTick + 1, bombs |-> bombs']

\* A tick adds events of its own, and at most one snapshot.
LEMMA TickCase ==
  ASSUME Typed, FusesInv, NEW free, NEW places, NEW blasts, Ticks(free, places, blasts)
  PROVE  Grows /\ Typed'
  <1>1. /\ SameView /\ UNCHANGED <<pending, broken, latest, left>> /\ serverTick' = serverTick + 1
        /\ serverTick \in Nat /\ serverTick + 1 \in Nat
        /\ places \in ByCell(Placed(free)) /\ blasts \in ByCell(Due)
        /\ free \in SUBSET (Cells \ {d.cell : d \in bombs})
        /\ snapshotsInFlight \in Seq(Snapshots)
        /\ bricks' \subseteq bricks /\ bricks \subseteq Bricks
        /\ snapshotsInFlight' \in {snapshotsInFlight,
             Append(snapshotsInFlight, [tick |-> serverTick + 1, bombs |-> bombs'])}
    BY DEF Typed, TypeOK, Ticks
  <1>2. bombs' \subseteq Bombs
    BY FusesKept
  <1>3. [tick |-> serverTick + 1, bombs |-> bombs'] \in Snapshots
    BY <1>1, <1>2 DEF Snapshots
  <1>4. Typed'
    <2>1. snapshotsInFlight' \in Seq(Snapshots) /\ serverTick' \in Nat /\ bricks' \subseteq Bricks
      <3> DEFINE new == [tick |-> serverTick + 1, bombs |-> bombs']
      <3>1. new \in Snapshots /\ snapshotsInFlight' \in {snapshotsInFlight, Append(snapshotsInFlight, new)}
        BY <1>1, <1>3
      <3> HIDE DEF new
      <3>. QED BY <1>1, <3>1
    <2>2. eventsInFlight' \in Seq(Events)
      BY EventsSent
    <2>. QED BY <1>1, <1>2, <2>1, <2>2 DEF Typed, TypeOK, SameView
  <1>5. ASSUME NEW s, Told(s)'
        PROVE  Told(s) \/ s = [tick |-> serverTick + 1, bombs |-> bombs']
    <2>1. CASE snapshotsInFlight' = snapshotsInFlight
      BY <1>1, <1>5, <2>1 DEF Told
    <2>2. CASE snapshotsInFlight' = Append(snapshotsInFlight, [tick |-> serverTick + 1, bombs |-> bombs'])
      <3> DEFINE new == [tick |-> serverTick + 1, bombs |-> bombs']
      <3> HIDE DEF new
      <3>1. Len(snapshotsInFlight') = Len(snapshotsInFlight) + 1 /\ Len(snapshotsInFlight) \in Nat
        BY <1>1, <2>2
      <3>2. \A i \in 1 .. Len(snapshotsInFlight) : snapshotsInFlight'[i] = snapshotsInFlight[i]
        BY <1>1, <2>2
      <3>3. snapshotsInFlight'[Len(snapshotsInFlight) + 1] = new
        BY <1>1, <2>2 DEF new
      <3>4. \A i \in 1 .. Len(snapshotsInFlight') :
              i = Len(snapshotsInFlight) + 1 \/ i \in 1 .. Len(snapshotsInFlight)
        BY <3>1
      <3>. QED BY <1>1, <1>5, <3>2, <3>3, <3>4 DEF Told, new
    <2>. QED BY <1>1, <2>1, <2>2
  <1>6. Len(Coming) \in Nat /\ Len(places) \in Nat /\ Len(blasts) \in Nat
    BY <1>1, ComingTyped, Ordered
  <1>7. /\ Len(Coming') = Len(Coming) + Len(places) + Len(blasts)
        /\ \A i \in 1 .. Len(Coming) : Coming'[i] = Coming[i]
    BY EventsSent
  <1>8. ASSUME NEW i \in 1 .. Len(Coming'), i > Len(Coming)
        PROVE  Coming'[i].tick = serverTick + 1 /\ Timed(Coming'[i])
    <2>1. CASE i <= Len(Coming) + Len(places)
      <3> DEFINE j == i - Len(Coming)
      <3>1. j \in 1 .. Len(places) /\ Len(Coming) + j = i
        BY <1>6, <1>7, <1>8, <2>1
      <3> HIDE DEF j
      <3>2. places[j] \in Placed(free)
        BY <1>1, <3>1, Ordered
      <3>3. places[j] \in Bombs /\ places[j].placed = serverTick + 1
        BY <1>1, <3>2, PlacedTyped
      <3>4. Coming'[i] = BombPlaced(serverTick + 1, places[j])
        BY <3>1, EventsSent
      <3>6. /\ Coming'[i].tick = serverTick + 1 /\ Coming'[i].bomb = places[j]
            /\ Coming'[i].type = "BombPlaced"
        BY <3>4 DEF BombPlaced
      <3>7. serverTick + 1 = (serverTick + 1) + 0
        BY <1>1
      <3>8. (IF Coming'[i].type = "BombPlaced" THEN 0 ELSE FuseTicks) = 0
        BY <3>6
      <3>. QED BY <3>3, <3>6, <3>7, <3>8 DEF Timed
    <2>2. CASE i > Len(Coming) + Len(places)
      <3> DEFINE j == i - Len(Coming) - Len(places)
      <3>1. j \in 1 .. Len(blasts) /\ Len(Coming) + Len(places) + j = i
        BY <1>6, <1>7, <2>2
      <3> HIDE DEF j
      <3>2. blasts[j] \in Due
        BY <1>1, <3>1, Ordered
      <3>3. blasts[j] \in Bombs /\ blasts[j].placed + FuseTicks = serverTick + 1
        BY <3>2, DueIs
      <3>4. /\ Takes(blasts, j) \in SUBSET Bricks
            /\ Coming'[i] = ExplosionResolved(serverTick + 1, blasts[j], Takes(blasts, j))
        BY <3>1, EventsSent
      <3>6. /\ Coming'[i].tick = serverTick + 1 /\ Coming'[i].bomb = blasts[j]
            /\ Coming'[i].type = "ExplosionResolved"
        BY <3>4 DEF ExplosionResolved
      <3>. QED BY <3>3, <3>6 DEF Timed
    <2>. QED BY <1>6, <2>1, <2>2
  <1>9. Len(Coming') \in Nat /\ Len(Coming) <= Len(Coming')
    BY <1>6, <1>7
  <1>. QED BY <1>1, <1>4, <1>5, <1>7, <1>8, <1>9 DEF Grows

-----------------------------------------------------------------------------
(* No bomb returns. *)

WorldInv == Typed /\ FusesInv /\ EventsInv /\ SnapshotsInv /\ ReturnsInv

\* Events stay in order while they are taken.
LEMMA EventsStay ==
  ASSUME Typed, Typed', EventsInv, SameServer, NEW d, Shifts(d)
  PROVE  EventsInv'
  <1>1. UNCHANGED serverTick /\ d \in Nat /\ Len(Coming) \in Nat /\ Len(Coming') \in Nat
    BY ComingTyped DEF SameServer, Shifts
  <1>2. ASSUME NEW i \in 1 .. Len(Coming')
        PROVE  i + d \in 1 .. Len(Coming) /\ Coming'[i] = Coming[i + d]
    BY DEF Shifts
  <1>3. ASSUME NEW i \in 1 .. Len(Coming') PROVE Timed(Coming'[i]) /\ Coming'[i].tick <= serverTick'
    BY <1>1, <1>2 DEF EventsInv, Timed
  <1>4. ASSUME NEW i \in 1 .. Len(Coming'), NEW j \in 1 .. Len(Coming'), i < j
        PROVE  Coming'[i].tick <= Coming'[j].tick
    <2>1. i + d < j + d
      BY <1>1, <1>4
    <2>2. /\ i + d \in 1 .. Len(Coming) /\ Coming'[i] = Coming[i + d]
          /\ j + d \in 1 .. Len(Coming) /\ Coming'[j] = Coming[j + d]
      BY <1>2
    <2>. QED BY <2>1, <2>2 DEF EventsInv
  <1>. QED BY <1>3, <1>4 DEF EventsInv

\* Events stay in order when a tick adds its own.
LEMMA EventsGrow ==
  ASSUME Typed, Typed', EventsInv, Grows
  PROVE  EventsInv'
  <1>1. /\ serverTick \in Nat /\ serverTick' = serverTick + 1 /\ Len(Coming) \in Nat
        /\ \A i \in 1 .. Len(Coming) : Coming'[i] = Coming[i]
        /\ \A i \in 1 .. Len(Coming') :
             i > Len(Coming) => Coming'[i].tick = serverTick + 1 /\ Timed(Coming'[i])
        /\ \A i \in 1 .. Len(Coming) : Coming[i].tick \in Nat
        /\ \A i \in 1 .. Len(Coming) : Timed(Coming[i]) /\ Coming[i].tick <= serverTick
        /\ \A i, j \in 1 .. Len(Coming) : i < j => Coming[i].tick <= Coming[j].tick
    BY ComingTyped DEF Grows, Typed, TypeOK, EventsInv
  <1>2. ASSUME NEW i \in 1 .. Len(Coming')
        PROVE  \/ i \in 1 .. Len(Coming) /\ Coming'[i] = Coming[i]
               \/ i > Len(Coming) /\ Coming'[i].tick = serverTick + 1 /\ Timed(Coming'[i])
    <2>1. i \in 1 .. Len(Coming) \/ i > Len(Coming)
      BY <1>1
    <2>. QED BY <1>1, <2>1
  <1>3. ASSUME NEW i \in 1 .. Len(Coming') PROVE Timed(Coming'[i]) /\ Coming'[i].tick <= serverTick'
    <2>1. CASE i \in 1 .. Len(Coming) /\ Coming'[i] = Coming[i]
      <3>1. Timed(Coming'[i]) /\ Coming'[i].tick <= serverTick /\ Coming'[i].tick \in Nat
        BY <1>1, <2>1
      <3>. QED BY <1>1, <3>1
    <2>2. CASE i > Len(Coming) /\ Coming'[i].tick = serverTick + 1 /\ Timed(Coming'[i])
      BY <1>1, <2>2
    <2>. QED BY <1>2, <2>1, <2>2
  <1>4. ASSUME NEW i \in 1 .. Len(Coming'), NEW j \in 1 .. Len(Coming'), i < j
        PROVE  Coming'[i].tick <= Coming'[j].tick
    <2>1. CASE j \in 1 .. Len(Coming) /\ Coming'[j] = Coming[j]
      <3>1. i \in 1 .. Len(Coming)
        BY <1>1, <1>4, <2>1
      <3>. QED BY <1>1, <1>4, <2>1, <3>1
    <2>2. CASE j > Len(Coming) /\ Coming'[j].tick = serverTick + 1
      <3>1. Coming'[i].tick <= serverTick'
        BY <1>3
      <3>. QED BY <1>1, <2>2, <3>1
    <2>. QED BY <1>2, <2>1, <2>2
  <1>. QED BY <1>3, <1>4 DEF EventsInv

\* Snapshots that were to come have no burnt fuse later either.
LEMMA SnapshotsStay ==
  ASSUME Typed, SnapshotsInv, SameServer, \A s : Told(s)' => Told(s)
  PROVE  SnapshotsInv'
  BY DEF SnapshotsInv, SameServer

\* Nor has the tick's.
LEMMA SnapshotsGrow ==
  ASSUME Typed, Typed', SnapshotsInv, FusesInv', Grows
  PROVE  SnapshotsInv'
  <1>1. serverTick \in Nat /\ serverTick' = serverTick + 1
    BY DEF Grows, Typed, TypeOK
  <1>2. ASSUME NEW s \in Snapshots, Told(s)'
        PROVE  s.tick <= serverTick' /\ \A b \in s.bombs : s.tick < b.placed + FuseTicks
    <2>1. CASE Told(s)
      <3>1. s.tick <= serverTick /\ \A b \in s.bombs : s.tick < b.placed + FuseTicks
        BY <2>1 DEF SnapshotsInv
      <3>2. s.tick \in Nat
        BY DEF Snapshots
      <3>. QED BY <1>1, <3>1, <3>2
    <2>2. CASE s = [tick |-> serverTick + 1, bombs |-> bombs']
      <3>1. s.tick = serverTick' /\ s.bombs = bombs'
        BY <1>1, <2>2
      <3>. QED BY <1>1, <3>1 DEF FusesInv
    <2>. QED BY <1>2, <2>1, <2>2 DEF Grows
  <1>. QED BY <1>2 DEF SnapshotsInv

\* A view is as far behind after the events that came, or went, as before.
LEMMA BehindStays ==
  ASSUME Typed, Typed', SameServer, NEW d, Shifts(d), NEW view \in Views, Behind(view, d)
  PROVE  Behind(view, 0)'
  <1>1. /\ UNCHANGED serverTick /\ d \in Nat /\ Len(Coming) \in Nat /\ Len(Coming') \in Nat
        /\ \A i \in 1 .. Len(Coming') : i + d \in 1 .. Len(Coming) /\ Coming'[i] = Coming[i + d]
        /\ view.event <= serverTick /\ \A i \in 1 .. Len(Coming) : i > d => view.event <= Coming[i].tick
    BY ComingTyped DEF SameServer, Shifts, Behind
  <1>2. \A i \in 1 .. Len(Coming') : i + d > d /\ view.event <= Coming'[i].tick
    BY <1>1
  <1>. QED BY <1>1, <1>2 DEF Behind

\* The view is what its fields are.
LEMMA ViewStays == ASSUME SameView PROVE UNCHANGED View
  BY DEF SameView, View

\* A view behind all events is behind the later ones.
LEMMA BehindFewer ==
  ASSUME Typed, NEW view, NEW d \in Nat, Behind(view, 0)
  PROVE  Behind(view, d)
  <1>1. Len(Coming) \in Nat
    BY ComingTyped
  <1>2. \A i \in 1 .. Len(Coming) : i > 0
    BY <1>1
  <1>. QED BY <1>2 DEF Behind

\* What the client receives brings no bomb back.
LEMMA ReturnsOnReceive ==
  ASSUME WorldInv, Typed', Receives \/ Hears
  PROVE  ReturnsInv'
  <1>1. SameServer /\ SameView /\ Typed /\ Behind(View, 0) /\ Buried(View)
    BY DEF WorldInv, ReturnsInv, Receives, Hears, Passes
  <1>2. \E d \in 0 .. Len(Coming) : Shifts(d)
    <2>1. CASE Receives
      BY <2>1 DEF Receives
    <2>2. CASE Hears
      <3>1. Shifts(0)
        BY <1>1, <2>2, ShiftsNone DEF Hears
      <3>2. 0 \in 0 .. Len(Coming)
        BY <1>1, ComingTyped
      <3>. QED BY <3>1, <3>2
    <2>. QED BY <2>1, <2>2
  <1>3. PICK d \in 0 .. Len(Coming) : Shifts(d)
    BY <1>2
  <1>4. View \in Views /\ View' = View /\ d \in Nat
    BY <1>1, ViewTyped, ViewStays, ComingTyped
  <1>5. Behind(View, d)
    BY <1>1, <1>4, BehindFewer
  <1> DEFINE v == View
  <1>6. v \in Views /\ Behind(v, d) /\ View' = v /\ Buried(v)
    BY <1>1, <1>4, <1>5
  <1> HIDE DEF v
  <1>7. PICK u : u = v
    OBVIOUS
  <1>8. u \in Views /\ Behind(u, d) /\ View' = u /\ Buried(u)
    BY <1>6, <1>7
  <1>9. Behind(u, 0)'
    BY <1>1, <1>3, <1>8, BehindStays
  <1>. QED BY <1>8, <1>9 DEF ReturnsInv, Behind, Buried

\* A tick brings no bomb back.
LEMMA ReturnsOnTick ==
  ASSUME WorldInv, Typed', Grows
  PROVE  ReturnsInv'
  <1>1. /\ Typed /\ SameView /\ serverTick \in Nat /\ serverTick' = serverTick + 1 /\ Len(Coming) \in Nat
        /\ \A i \in 1 .. Len(Coming) : Coming'[i] = Coming[i]
        /\ \A i \in 1 .. Len(Coming') : i > Len(Coming) => Coming'[i].tick = serverTick + 1
        /\ Behind(View, 0) /\ Buried(View)
    BY ComingTyped DEF WorldInv, ReturnsInv, Grows, Typed, TypeOK
  <1>2. View \in Views /\ View' = View
    BY <1>1, ViewTyped, ViewStays
  <1>3. PICK u : u = View
    OBVIOUS
  <1>4. u \in Views /\ Behind(u, 0) /\ View' = u /\ Buried(u) /\ u.event \in Nat
    BY <1>1, <1>2, <1>3 DEF Views
  <1>5. ASSUME NEW i \in 1 .. Len(Coming') PROVE u.event <= Coming'[i].tick
    <2>1. CASE i \in 1 .. Len(Coming)
      <3>1. i > 0
        BY <2>1
      <3>. QED BY <1>1, <1>4, <2>1, <3>1 DEF Behind
    <2>2. CASE i > Len(Coming)
      BY <1>1, <1>4, <2>2 DEF Behind
    <2>. QED BY <1>1, <2>1, <2>2
  <1>6. u.event <= serverTick'
    BY <1>1, <1>4 DEF Behind
  <1>7. Behind(u, 0)'
    BY <1>5, <1>6 DEF Behind
  <1>. QED BY <1>4, <1>7 DEF ReturnsInv, Buried

\* The latest snapshot, as long as it may be used, has none of the bombs seen to explode.
LEMMA SnapshotBuries ==
  ASSUME Typed, SnapshotsInv, NEW v \in Views, Buried(v), Usable(v)
  PROVE  latest.bombs \cap v.exploded = {}
  <1>1. latest \in Snapshots /\ Told(latest) /\ latest.tick > v.event /\ FuseTicks \in Nat
    BY TicksAssumption DEF Typed, TypeOK, Told, Usable
  <1>2. /\ latest.tick \in Nat /\ latest.bombs \subseteq Bombs /\ v.event \in Nat
    BY <1>1 DEF Snapshots, Views
  <1>3. \A b \in latest.bombs : latest.tick < b.placed + FuseTicks /\ b.placed \in Nat
    BY <1>1, <1>2 DEF SnapshotsInv, Bombs
  <1>4. \A b \in v.exploded : b.placed + FuseTicks <= v.event
    BY DEF Buried
  <1>5. ASSUME NEW b \in latest.bombs, b \in v.exploded PROVE FALSE
    <2>1. /\ latest.tick < b.placed + FuseTicks /\ b.placed \in Nat
          /\ b.placed + FuseTicks <= v.event
      BY <1>3, <1>4, <1>5
    <2>. QED BY <1>1, <1>2, <2>1
  <1>. QED BY <1>5

\* The event at k, shown to a view that has had the k - 1 before it.
LEMMA ReturnsOnEvent ==
  ASSUME WorldInv, NEW k \in 1 .. Len(Coming), NEW v \in Views, Behind(v, k - 1), Buried(v)
  PROVE  Behind(Consume(v, Coming[k]), k) /\ Buried(Consume(v, Coming[k]))
  <1> DEFINE e == Coming[k]
             w == Consume(v, e)
             b == Before(v, e)
  <1>1. /\ Typed /\ SnapshotsInv /\ latest \in Snapshots /\ serverTick \in Nat
        /\ Len(Coming) \in Nat /\ FuseTicks \in Nat \ {0}
        /\ e \in Events /\ e.tick \in Nat /\ e.bomb \in Bombs /\ e.bomb.placed \in Nat
        /\ e.tick <= serverTick /\ Timed(e)
        /\ \A i \in 1 .. Len(Coming) : i > k => e.tick <= Coming[i].tick /\ Coming[i].tick \in Nat
    BY ComingTyped, TicksAssumption DEF WorldInv, EventsInv, Typed, TypeOK
  <1>2. /\ w \in Views /\ b \in Views
        /\ ShowsPlaced(b, w, e) \/ ShowsExploded(b, w, e) \/ Skips(b, w, e)
        /\ b.event = v.event /\ b.exploded = v.exploded
        /\ b.bombs = v.bombs \/ (Usable(v) /\ b.bombs = latest.bombs)
    BY <1>1, Consumed
  <1>3. /\ v.event <= serverTick /\ v.event <= e.tick
        /\ \A i \in 1 .. Len(Coming) : i > k => v.event <= Coming[i].tick
    <2>1. k > k - 1 /\ \A i \in 1 .. Len(Coming) : i > k => i > k - 1
      BY <1>1
    <2>. QED BY <2>1 DEF Behind
  <1>4. v.event \in Nat /\ v.exploded \subseteq Bombs
    BY DEF Views
  <1>5. b.bombs \cap v.exploded = {}
    BY <1>1, <1>2, SnapshotBuries DEF Buried
  <1>6. \A d \in v.exploded : d.placed + FuseTicks <= v.event
    BY DEF Buried
  <1> HIDE DEF e, w, b
  <1>7. CASE ShowsPlaced(b, w, e)
    <2>1. e.bomb.placed = e.tick
      <3>1. e.tick = e.bomb.placed + 0
        BY <1>1, <1>7 DEF Timed, ShowsPlaced
      <3>. QED BY <1>1, <3>1
    <2>2. e.bomb \notin v.exploded
      BY <1>1, <1>3, <1>4, <1>6, <2>1
    <2>3. /\ w.bombs \subseteq b.bombs \cup {e.bomb} /\ w.exploded = v.exploded /\ w.event = e.tick
      BY <1>2, <1>3, <1>7 DEF ShowsPlaced
    <2>4. w.bombs \cap w.exploded = {}
      BY <1>5, <2>2, <2>3
    <2>5. \A d \in w.exploded : d.placed + FuseTicks <= w.event
      <3>1. \A d \in v.exploded : d.placed \in Nat
        BY <1>4 DEF Bombs
      <3>. QED BY <1>1, <1>3, <1>4, <1>6, <2>3, <3>1
    <2>6. w.event <= serverTick /\ \A i \in 1 .. Len(Coming) : i > k => w.event <= Coming[i].tick
      BY <1>1, <2>3
    <2>. QED BY <2>4, <2>5, <2>6 DEF Behind, Buried, w, e
  <1>8. CASE ShowsExploded(b, w, e)
    <2>1. e.tick = e.bomb.placed + FuseTicks
      BY <1>1, <1>8 DEF Timed, ShowsExploded
    <2>3. /\ w.bombs \subseteq b.bombs /\ e.bomb \notin w.bombs
          /\ w.exploded = v.exploded \cup {e.bomb} /\ w.event = e.tick
      BY <1>2, <1>8 DEF ShowsExploded, AtCell
    <2>4. w.bombs \cap w.exploded = {}
      BY <1>5, <2>3
    <2>5. \A d \in w.exploded : d.placed + FuseTicks <= w.event
      <3>1. \A d \in v.exploded : d.placed \in Nat
        BY <1>4 DEF Bombs
      <3>2. \A d \in v.exploded : d.placed + FuseTicks <= w.event
        BY <1>1, <1>3, <1>4, <1>6, <2>3, <3>1
      <3>. QED BY <1>1, <2>1, <2>3, <3>2
    <2>6. w.event <= serverTick /\ \A i \in 1 .. Len(Coming) : i > k => w.event <= Coming[i].tick
      BY <1>1, <2>3
    <2>. QED BY <2>4, <2>5, <2>6 DEF Behind, Buried, w, e
  <1>9. CASE Skips(b, w, e)
    <2>1. w.bombs = b.bombs /\ w.exploded = v.exploded /\ w.event = v.event
      BY <1>2, <1>9 DEF Skips
    <2>. QED BY <1>3, <1>5, <1>6, <2>1 DEF Behind, Buried, w, e
  <1>. QED BY <1>2, <1>7, <1>8, <1>9

\* An update brings no bomb back.
LEMMA ReturnsOnShow ==
  ASSUME WorldInv, Typed', Shows
  PROVE  ReturnsInv'
  <1>1. /\ Typed /\ SnapshotsInv /\ Behind(View, 0) /\ Buried(View) /\ View \in Views
        /\ Len(Coming) \in Nat /\ Len(pending) \in Nat /\ Len(pending) <= Len(Coming)
        /\ \A i \in 1 .. Len(pending) : Coming[i] = pending[i]
    BY ComingTyped, ViewTyped DEF WorldInv, ReturnsInv
  <1> DEFINE Good == [k \in 0 .. Len(pending) |-> {v \in Views : Behind(v, k) /\ Buried(v)}]
  <1>2. \A k \in 0 .. Len(pending) : Good[k] = {v \in Views : Behind(v, k) /\ Buried(v)}
    OBVIOUS
  <1> HIDE DEF Good
  <1>3. View \in Good[0]
    BY <1>1, <1>2
  <1>4. \A k \in 0 .. Len(pending) : Good[k] \subseteq Views
    BY <1>2
  <1>5. ASSUME NEW k \in 1 .. Len(pending), NEW v \in Good[k - 1]
        PROVE  Consume(v, pending[k]) \in Good[k]
    <2>1. k - 1 \in 0 .. Len(pending) /\ k \in 0 .. Len(pending) /\ k \in 1 .. Len(Coming)
      BY <1>1
    <2>2. v \in Views /\ Behind(v, k - 1) /\ Buried(v)
      BY <1>2, <2>1
    <2>3. Behind(Consume(v, Coming[k]), k) /\ Buried(Consume(v, Coming[k]))
      BY <2>1, <2>2, ReturnsOnEvent
    <2>4. Coming[k] \in Events /\ Coming[k] = pending[k] /\ latest \in Snapshots
      BY <1>1, <2>1, ComingTyped DEF Typed, TypeOK
    <2>5. Consume(v, Coming[k]) \in Views
      BY <2>2, <2>4, Consumed
    <2>. QED BY <1>2, <2>1, <2>3, <2>4, <2>5
  <1>6. PICK v \in Good[Len(pending)] :
           /\ Merge(View, pending) \in Views
           /\ Merge(View, pending).event = v.event /\ Merge(View, pending).bricks = v.bricks
           /\ Merge(View, pending).exploded = v.exploded
           /\ \/ Merge(View, pending).bombs = v.bombs
              \/ Usable(v) /\ Merge(View, pending).bombs = latest.bombs
    <2>1. \A k \in 1 .. Len(pending) : \A v \in Good[k - 1] : Consume(v, pending[k]) \in Good[k]
      BY <1>5
    <2>. QED BY <1>1, <1>3, <1>4, <2>1, Merged
  <1>7. v \in Views /\ Behind(v, Len(pending)) /\ Buried(v)
    <2>1. Len(pending) \in 0 .. Len(pending)
      BY <1>1
    <2>. QED BY <1>2, <2>1
  <1>8. PICK u : u = Merge(View, pending)
    OBVIOUS
  <1>9. /\ u \in Views /\ u.event = v.event /\ u.exploded = v.exploded
        /\ u.bombs = v.bombs \/ (Usable(v) /\ u.bombs = latest.bombs)
        /\ View' = u /\ Shifts(Len(pending)) /\ SameServer
    BY <1>6, <1>8 DEF Shows
  <1>10. Behind(u, Len(pending))
    BY <1>7, <1>9 DEF Behind
  <1>11. Buried(u)
    BY <1>1, <1>7, <1>9, SnapshotBuries DEF Buried
  <1>12. Behind(u, 0)'
    BY <1>1, <1>9, <1>10, BehindStays
  <1>. QED BY <1>9, <1>11, <1>12 DEF ReturnsInv, Buried, Behind

\* The steps, in the words of the lemmas above.
LEMMA Steps ==
  ASSUME Typed, FusesInv, [Next]_vars
  PROVE  /\ Typed'
         /\ Receives \/ Hears \/ Shows
              \/ \E free, places, blasts : Ticks(free, places, blasts)
  <1>1. CASE ServerTick
    <2>1. PICK free, places, blasts : Ticks(free, places, blasts)
      BY <1>1, TickTaken
    <2>. QED BY <2>1, TickCase
  <1>2. CASE LoseSnapshot
    BY <1>2, HearCase
  <1>3. CASE ReceiveGameplayEvent
    BY <1>3, ReceiveCase
  <1>4. CASE ReceiveSnapshot
    BY <1>4, HearCase
  <1>5. CASE UpdateLevel
    BY <1>5, UpdateCase
  <1>6. CASE UNCHANGED vars
    <2>1. UNCHANGED <<serverTick, bombs, bricks, eventsInFlight, snapshotsInFlight, pending, broken,
                      latest, shownBombs, shownBricks, lastSnapshot, lastEvent, left, exploded>>
      BY <1>6 DEF vars, serverVars, queueVars, sceneVars
    <2>2. Typed'
      BY <2>1 DEF Typed, TypeOK
    <2>3. Hears
      BY <2>1 DEF Hears, Passes, SameServer, SameView, Told
    <2>. QED BY <2>2, <2>3
  <1>. QED BY <1>1, <1>2, <1>3, <1>4, <1>5, <1>6 DEF Next

\* The initial state is typed.
LEMMA TypedAtFirst == ASSUME Init PROVE Typed
  <1>1. 0 \in Nat /\ <<>> \in Seq(Events) /\ <<>> \in Seq(Snapshots) /\ Len(<<>>) <= MaxPending
    BY TicksAssumption
  <1>2. latest \in Snapshots
    BY DEF Init, NoSnapshot, Snapshots
  <1>. QED BY <1>1, <1>2 DEF Init, Typed, TypeOK

\* The general invariant holds at first.
LEMMA WorldAtFirst == ASSUME Init PROVE WorldInv
  <1>1. Typed
    BY TypedAtFirst
  <1>2. Coming = <<>> /\ Len(Coming) = 0
    BY DEF Init, Coming
  <1>3. 1 .. Len(Coming) = {}
    BY <1>2
  <1>4. FusesInv /\ EventsInv
    BY <1>3 DEF Init, FusesInv, EventsInv
  <1>5. SnapshotsInv
    <2>1. \A s : Told(s) => s = NoSnapshot
      BY DEF Told, Init
    <2>2. NoSnapshot.tick = 0 /\ NoSnapshot.bombs = {}
      BY DEF NoSnapshot
    <2>3. serverTick = 0
      BY DEF Init
    <2>. QED BY <2>1, <2>2, <2>3 DEF SnapshotsInv
  <1>6. View.event = 0 /\ View.bombs = {} /\ View.exploded = {} /\ serverTick = 0
    BY DEF Init, View
  <1>7. ReturnsInv
    BY <1>3, <1>6 DEF ReturnsInv, Behind, Buried
  <1>. QED BY <1>1, <1>4, <1>5, <1>7 DEF WorldInv

\* The general invariant is inductive.
LEMMA WorldKept ==
  ASSUME WorldInv, [Next]_vars
  PROVE  WorldInv'
  <1>1. Typed /\ FusesInv /\ EventsInv /\ SnapshotsInv
    BY DEF WorldInv
  <1>2. Typed' /\ (Receives \/ Hears \/ Shows \/ \E free, places, blasts : Ticks(free, places, blasts))
    BY <1>1, Steps
  <1>3. CASE Receives \/ Hears
    <2>1. SameServer /\ \E d : Shifts(d)
      <3>1. CASE Receives
        BY <3>1 DEF Receives, Passes
      <3>2. CASE Hears
        BY <1>1, <3>2, ShiftsNone DEF Hears, Passes
      <3>. QED BY <1>3, <3>1, <3>2
    <2>2. FusesInv'
      BY <1>1, <2>1 DEF FusesInv, SameServer
    <2>3. EventsInv'
      BY <1>1, <1>2, <2>1, EventsStay
    <2>4. \A s : Told(s)' => Told(s)
      BY <1>3 DEF Receives, Hears, Told
    <2>5. SnapshotsInv'
      BY <1>1, <2>1, <2>4, SnapshotsStay
    <2>6. ReturnsInv'
      BY <1>2, <1>3, ReturnsOnReceive
    <2>. QED BY <1>2, <2>2, <2>3, <2>5, <2>6 DEF WorldInv
  <1>4. CASE Shows
    <2>1. SameServer /\ Shifts(Len(pending))
      BY <1>4 DEF Shows
    <2>2. FusesInv'
      BY <1>1, <2>1 DEF FusesInv, SameServer
    <2>3. EventsInv'
      BY <1>1, <1>2, <2>1, EventsStay
    <2>4. \A s : Told(s)' => Told(s)
      BY <1>4 DEF Shows, Told
    <2>5. SnapshotsInv'
      BY <1>1, <2>1, <2>4, SnapshotsStay
    <2>6. ReturnsInv'
      BY <1>2, <1>4, ReturnsOnShow
    <2>. QED BY <1>2, <2>2, <2>3, <2>5, <2>6 DEF WorldInv
  <1>5. ASSUME NEW free, NEW places, NEW blasts, Ticks(free, places, blasts) PROVE WorldInv'
    <2>1. Grows /\ Typed' /\ FusesInv'
      BY <1>1, <1>5, TickCase, FusesKept
    <2>2. EventsInv' /\ SnapshotsInv' /\ ReturnsInv'
      BY <1>1, <2>1, EventsGrow, SnapshotsGrow, ReturnsOnTick
    <2>. QED BY <2>1, <2>2 DEF WorldInv
  <1>. QED BY <1>2, <1>3, <1>4, <1>5

\* The general invariant always holds.
LEMMA WorldAlways == Spec => []WorldInv
  BY WorldAtFirst, WorldKept, PTL DEF Spec

\* The client's queues and view stay of their types, and no more events wait
\* than the queue may hold (enqueueGameplayEvent, the authority merge).
THEOREM TypeCorrect == Spec => []TypeOK
  <1>1. WorldInv => TypeOK
    BY DEF WorldInv, Typed
  <1>. QED BY <1>1, WorldAlways, PTL

\* No bomb seen to explode is seen again, however many events a server tick
\* has (consumeAuthoritativeNetState, applySnapshot, applyBombPlacedEvent).
THEOREM ReturnsCorrect == Spec => []NoBombReturns
  <1>1. ASSUME WorldInv PROVE NoBombReturns
    <2>1. View.bombs \cap View.exploded = {} /\ Typed
      BY <1>1 DEF WorldInv, ReturnsInv, Buried
    <2>. QED BY <2>1, ViewTyped DEF NoBombReturns
  <1>. QED BY <1>1, WorldAlways, PTL

-----------------------------------------------------------------------------
(* With one event a tick, the view is what the server has, but for what is   *)
(* still to come.                                                            *)

\* Where none of the events to come goes, they stay the same.
LEMMA ComingStays ==
  ASSUME Typed, Typed', Shifts(0)
  PROVE  UNCHANGED Coming
  <1>1. Coming \in Seq(Events) /\ Coming' \in Seq(Events)
    BY DEF Coming, Typed, TypeOK
  <1>2. Len(Coming') = Len(Coming)
    BY <1>1 DEF Shifts
  <1>3. ASSUME NEW i \in 1 .. Len(Coming) PROVE Coming'[i] = Coming[i]
    <2>1. i + 0 = i
      BY <1>1
    <2>. QED BY <1>2, <2>1 DEF Shifts
  <1>. QED BY <1>1, <1>2, <1>3

\* What the client receives leaves the view exact.
LEMMA ExactOnHear ==
  ASSUME WorldInv, Typed', ExactInv, Receives \/ Hears
  PROVE  ExactInv'
  <1> SUFFICES ASSUME ~broken' PROVE Exact(View, 0)' /\ LastWord' /\ InTurn'
    BY DEF ExactInv
  <1>1. /\ ~broken /\ SameView /\ UNCHANGED <<bombs, bricks>>
        /\ \A s : Told(s)' => Told(s)
    BY DEF Receives, Hears, Passes, SameServer, Told
  <1>2. UNCHANGED Coming
    <2>1. CASE Receives
      BY <2>1, ComingStays DEF Receives, WorldInv
    <2>2. CASE Hears
      BY <2>2 DEF Hears, Coming
    <2>. QED BY <2>1, <2>2
  <1>3. View' = View
    BY <1>1, ViewStays
  <1>4. Exact(View, 0) /\ LastWord /\ InTurn
    BY <1>1 DEF ExactInv
  <1>5. LastWord' /\ InTurn'
    BY <1>1, <1>2, <1>4 DEF LastWord, InTurn, Silent, AtCell
  <1>6. StrictlyBehind(View, 0)' /\ \A c, k : Silent(c, k)' <=> Silent(c, k)
    BY <1>2, <1>3, <1>4 DEF StrictlyBehind, Silent, Exact
  <1>7. bricks' = {brick \in View'.bricks : Spared(brick, 0)'}
    BY <1>1, <1>2, <1>3, <1>4 DEF Exact, Spared
  <1>8. \A c \in Cells : Silent(c, 0)' => AtCell(View'.bombs, c) = AtCell(bombs', c)
    BY <1>1, <1>3, <1>4, <1>6 DEF Exact
  <1>9. \A s \in Snapshots : Told(s)' => UpToDate(s, View, 0)'
    <2>1. \A s \in Snapshots : UpToDate(s, View, 0) => UpToDate(s, View, 0)'
      BY <1>1, <1>2, <1>3 DEF UpToDate, AtCell
    <2>. QED BY <1>1, <1>4, <2>1 DEF Exact
  <1>10. Exact(View, 0)'
    BY <1>6, <1>7, <1>8, <1>9 DEF Exact, AtCell
  <1>. QED BY <1>5, <1>10

\* An event applied leaves the view exact.
LEMMA ExactOnEvent ==
  ASSUME WorldInv, LastWord, InTurn, NEW k \in 1 .. Len(Coming), NEW v \in Views, Exact(v, k - 1)
  PROVE  Exact(Consume(v, Coming[k]), k)
  <1> DEFINE e == Coming[k]
             w == Consume(v, e)
             b == Before(v, e)
  <1>1. /\ latest \in Snapshots /\ Told(latest) /\ Len(Coming) \in Nat
        /\ e \in Events /\ e.tick \in Nat /\ e.bomb \in Bombs
        /\ e.bomb.cell \in Cells /\ e.type \in {"BombPlaced", "ExplosionResolved"}
        /\ \A i \in 1 .. Len(Coming) : i > k => e.tick < Coming[i].tick
        /\ \A i \in 1 .. Len(Coming) : Coming[i].tick \in Nat
    BY ComingTyped DEF WorldInv, Typed, TypeOK, Told, InTurn
  <1>2. /\ w \in Views /\ b \in Views
        /\ ShowsPlaced(b, w, e) \/ ShowsExploded(b, w, e) \/ Skips(b, w, e)
        /\ b.event = v.event /\ b.bricks = v.bricks
        /\ b.bombs = v.bombs \/ (Usable(v) /\ b.bombs = latest.bombs)
    BY <1>1, Consumed
  <1>3. v.event < e.tick /\ v.event \in Nat
    <2>1. k > k - 1
      BY <1>1
    <2>. QED BY <2>1 DEF Exact, StrictlyBehind, Views
  <1>4. ShowsPlaced(b, w, e) \/ ShowsExploded(b, w, e)
    BY <1>1, <1>2, <1>3 DEF Skips
  <1>5. w.event = e.tick
    BY <1>1, <1>2, <1>3, <1>4 DEF ShowsPlaced, ShowsExploded
  <1>6. \A i \in 1 .. Len(Coming) : i > k - 1 => i = k \/ i > k
    BY <1>1
  <1>7. ASSUME NEW c \in Cells, Silent(c, k - 1) PROVE AtCell(b.bombs, c) = AtCell(bombs, c)
    <2>1. CASE b.bombs = v.bombs
      BY <1>7, <2>1 DEF Exact
    <2>2. CASE Usable(v) /\ b.bombs = latest.bombs
      <3>1. UpToDate(latest, v, k - 1) /\ latest.tick > v.event
        BY <1>1, <2>2 DEF Exact, Usable
      <3>2. \A i \in 1 .. Len(Coming) : ~(i > k - 1 /\ Coming[i].bomb.cell = c)
        BY <1>7 DEF Silent
      <3>3. AtCell(latest.bombs, c) = AtCell(bombs, c)
        BY <3>1, <3>2 DEF UpToDate
      <3>. QED BY <2>2, <3>3
    <2>. QED BY <1>2, <2>1, <2>2
  <1>8. /\ \A s \in Snapshots : Told(s) => UpToDate(s, v, k - 1)
        /\ bricks = {brick \in v.bricks : Spared(brick, k - 1)}
    BY DEF Exact
  <1>9. Silent(e.bomb.cell, k) =>
          AtCell(bombs, e.bomb.cell) = IF e.type = "BombPlaced" THEN {e.bomb} ELSE {}
    BY DEF LastWord
  <1>10. \A i \in 1 .. Len(Coming) : i > k => i > k - 1
    BY <1>1
  <1>11. k > k - 1
    BY <1>1
  <1>12. \A brick : Spared(brick, k - 1) <=> brick \notin Gone(e) /\ Spared(brick, k)
    BY <1>6, <1>10, <1>11 DEF Spared
  <1>13. \A c : c # e.bomb.cell /\ Silent(c, k) => Silent(c, k - 1)
    BY <1>6 DEF Silent
  <1>14. \A i \in 1 .. Len(Coming) : i > k - 1 => i > k \/ Coming[i] = e
    BY <1>6
  <1>15. StrictlyBehind(w, k)
    BY <1>1, <1>5 DEF StrictlyBehind
  <1> HIDE DEF e, w, b
  <1>16. bricks = {brick \in w.bricks : Spared(brick, k)}
    <2>1. w.bricks = v.bricks \ Gone(e)
      BY <1>2, <1>4 DEF ShowsPlaced, ShowsExploded, Gone
    <2>. QED BY <1>8, <1>12, <2>1
  <1>17. ASSUME NEW c \in Cells, Silent(c, k) PROVE AtCell(w.bombs, c) = AtCell(bombs, c)
    <2>1. CASE c # e.bomb.cell
      <3>1. AtCell(b.bombs, c) = AtCell(bombs, c)
        BY <1>7, <1>13, <1>17, <2>1
      <3>2. AtCell(w.bombs, c) = AtCell(b.bombs, c)
        BY <1>4, <2>1 DEF ShowsPlaced, ShowsExploded, AtCell
      <3>. QED BY <3>1, <3>2
    <2>2. CASE c = e.bomb.cell
      <3>1. AtCell(bombs, c) = IF e.type = "BombPlaced" THEN {e.bomb} ELSE {}
        BY <1>9, <1>17, <2>2
      <3>2. AtCell(w.bombs, c) = IF e.type = "BombPlaced" THEN {e.bomb} ELSE {}
        BY <1>4, <2>2 DEF ShowsPlaced, ShowsExploded, AtCell
      <3>. QED BY <3>1, <3>2
    <2>. QED BY <2>1, <2>2
  <1>18. ASSUME NEW s \in Snapshots, Told(s) PROVE UpToDate(s, w, k)
    <2> SUFFICES ASSUME s.tick > w.event, NEW c \in Cells,
                        \A i \in 1 .. Len(Coming) : i > k /\ Coming[i].bomb.cell = c => Coming[i].tick <= s.tick
                 PROVE  AtCell(s.bombs, c) = AtCell(bombs, c)
      BY DEF UpToDate
    <2>1. s.tick \in Nat
      BY DEF Snapshots
    <2>2. s.tick > v.event /\ e.tick <= s.tick
      BY <1>1, <1>3, <1>5, <2>1
    <2>3. \A i \in 1 .. Len(Coming) : i > k - 1 /\ Coming[i].bomb.cell = c => Coming[i].tick <= s.tick
      BY <1>14, <2>2
    <2>. QED BY <1>8, <1>18, <2>2, <2>3 DEF UpToDate
  <1>. QED BY <1>15, <1>16, <1>17, <1>18 DEF Exact, w, e

\* The events still to come are those that were to come after the first d.
LEMMA ExactStays ==
  ASSUME Typed, Typed', UNCHANGED <<bombs, bricks, latest, snapshotsInFlight>>,
         NEW d, Shifts(d), NEW view \in Views, Exact(view, d), LastWord, InTurn
  PROVE  Exact(view, 0)' /\ LastWord' /\ InTurn'
  <1>1. d \in Nat /\ Len(Coming) \in Nat /\ Len(Coming') \in Nat /\ Len(Coming') = Len(Coming) - d
    BY ComingTyped DEF Shifts
  <1>2. \A i \in 1 .. Len(Coming') : /\ i + d \in 1 .. Len(Coming) /\ Coming'[i] = Coming[i + d]
                                     /\ i + d > d /\ i > 0
    BY <1>1 DEF Shifts
  <1>3. \A i \in 1 .. Len(Coming) : i > d =>
          i - d \in 1 .. Len(Coming') /\ i - d > 0 /\ Coming'[i - d] = Coming[i]
    <2> SUFFICES ASSUME NEW i \in 1 .. Len(Coming), i > d
                 PROVE  i - d \in 1 .. Len(Coming') /\ i - d > 0 /\ Coming'[i - d] = Coming[i]
      OBVIOUS
    <2>1. i - d \in 1 .. Len(Coming') /\ i - d > 0 /\ (i - d) + d = i
      BY <1>1
    <2>. QED BY <1>2, <2>1
  <1>4. \A c : Silent(c, 0)' => Silent(c, d)
    BY <1>3 DEF Silent
  <1>5. \A brick : Spared(brick, 0)' <=> Spared(brick, d)
    BY <1>2, <1>3 DEF Spared
  <1>6. StrictlyBehind(view, 0)'
    BY <1>2 DEF Exact, StrictlyBehind
  <1>7. bricks' = {brick \in view.bricks : Spared(brick, 0)'}
    BY <1>5 DEF Exact
  <1>8. \A c \in Cells : Silent(c, 0)' => AtCell(view.bombs, c) = AtCell(bombs', c)
    BY <1>4 DEF Exact
  <1>9. ASSUME NEW s \in Snapshots, Told(s)' PROVE UpToDate(s, view, 0)'
    <2>1. UpToDate(s, view, d)
      BY <1>9 DEF Exact, Told
    <2> SUFFICES ASSUME s.tick > view.event, NEW c \in Cells,
                        \A i \in 1 .. Len(Coming') : i > 0 /\ Coming'[i].bomb.cell = c => Coming'[i].tick <= s.tick
                 PROVE  AtCell(s.bombs, c) = AtCell(bombs', c)
      BY DEF UpToDate, AtCell
    <2>2. \A i \in 1 .. Len(Coming) : i > d /\ Coming[i].bomb.cell = c => Coming[i].tick <= s.tick
      BY <1>3
    <2>. QED BY <2>1, <2>2 DEF UpToDate
  <1>10. LastWord'
    <2> SUFFICES ASSUME NEW i \in 1 .. Len(Coming'),
                        \A j \in 1 .. Len(Coming') : j > i => Coming'[j].bomb.cell # Coming'[i].bomb.cell
                 PROVE  AtCell(bombs, Coming'[i].bomb.cell) =
                          IF Coming'[i].type = "BombPlaced" THEN {Coming'[i].bomb} ELSE {}
      BY DEF LastWord, AtCell, Silent
    <2>1. i + d \in 1 .. Len(Coming) /\ Coming'[i] = Coming[i + d]
      BY <1>2
    <2>2. \A j \in 1 .. Len(Coming) : j > i + d => j > d /\ j - d > i
      BY <1>1
    <2>4. Silent(Coming[i + d].bomb.cell, i + d)
      BY <1>3, <2>1, <2>2 DEF Silent
    <2>. QED BY <2>1, <2>4 DEF LastWord
  <1>11. InTurn'
    <2> SUFFICES ASSUME NEW i \in 1 .. Len(Coming'), NEW j \in 1 .. Len(Coming'), i < j
                 PROVE  Coming'[i].tick < Coming'[j].tick
      BY DEF InTurn
    <2>1. i + d < j + d
      BY <1>1
    <2>. QED BY <1>2, <2>1 DEF InTurn
  <1>12. Exact(view, 0)'
    BY <1>6, <1>7, <1>8, <1>9 DEF Exact, AtCell
  <1>. QED BY <1>10, <1>11, <1>12

\* An update leaves the view exact.
LEMMA ExactOnShow ==
  ASSUME WorldInv, Typed', ExactInv, Shows
  PROVE  ExactInv'
  <1>1. /\ Typed /\ Exact(View, 0) /\ LastWord /\ InTurn /\ View \in Views
        /\ Len(Coming) \in Nat /\ Len(pending) \in Nat /\ Len(pending) <= Len(Coming)
        /\ \A i \in 1 .. Len(pending) : Coming[i] = pending[i]
        /\ latest \in Snapshots /\ Told(latest)
    BY ComingTyped, ViewTyped DEF WorldInv, ExactInv, Shows, Typed, TypeOK, Told
  <1> DEFINE Good == [k \in 0 .. Len(pending) |-> {v \in Views : Exact(v, k)}]
  <1>2. \A k \in 0 .. Len(pending) : Good[k] = {v \in Views : Exact(v, k)}
    OBVIOUS
  <1> HIDE DEF Good
  <1>3. View \in Good[0]
    BY <1>1, <1>2
  <1>4. \A k \in 0 .. Len(pending) : Good[k] \subseteq Views
    BY <1>2
  <1>5. ASSUME NEW k \in 1 .. Len(pending), NEW v \in Good[k - 1]
        PROVE  Consume(v, pending[k]) \in Good[k]
    <2>1. k - 1 \in 0 .. Len(pending) /\ k \in 0 .. Len(pending) /\ k \in 1 .. Len(Coming)
      BY <1>1
    <2>2. v \in Views /\ Exact(v, k - 1)
      BY <1>2, <2>1
    <2>3. Exact(Consume(v, Coming[k]), k)
      BY <1>1, <2>1, <2>2, ExactOnEvent
    <2>4. Coming[k] \in Events /\ Coming[k] = pending[k]
      BY <1>1, <2>1, ComingTyped
    <2>5. Consume(v, Coming[k]) \in Views
      BY <1>1, <2>2, <2>4, Consumed
    <2>. QED BY <1>2, <2>1, <2>3, <2>4, <2>5
  <1>6. PICK v \in Good[Len(pending)] :
           /\ Merge(View, pending) \in Views
           /\ Merge(View, pending).event = v.event /\ Merge(View, pending).bricks = v.bricks
           /\ Merge(View, pending).exploded = v.exploded
           /\ \/ Merge(View, pending).bombs = v.bombs
              \/ Usable(v) /\ Merge(View, pending).bombs = latest.bombs
    <2>1. \A k \in 1 .. Len(pending) : \A v \in Good[k - 1] : Consume(v, pending[k]) \in Good[k]
      BY <1>5
    <2>. QED BY <1>1, <1>3, <1>4, <2>1, Merged
  <1>7. v \in Views /\ Exact(v, Len(pending))
    <2>1. Len(pending) \in 0 .. Len(pending)
      BY <1>1
    <2>. QED BY <1>2, <2>1
  <1>8. PICK u : u = Merge(View, pending)
    OBVIOUS
  <1>9. /\ u \in Views /\ u.event = v.event /\ u.bricks = v.bricks
        /\ u.bombs = v.bombs \/ (Usable(v) /\ u.bombs = latest.bombs)
        /\ View' = u /\ Shifts(Len(pending))
        /\ UNCHANGED <<bombs, bricks, latest, snapshotsInFlight>>
    BY <1>6, <1>8 DEF Shows, SameServer
  <1>10. ASSUME NEW c \in Cells, Silent(c, Len(pending)) PROVE AtCell(u.bombs, c) = AtCell(bombs, c)
    <2>1. CASE u.bombs = v.bombs
      BY <1>7, <1>10, <2>1 DEF Exact
    <2>2. CASE Usable(v) /\ u.bombs = latest.bombs
      <3>1. UpToDate(latest, v, Len(pending)) /\ latest.tick > v.event
        BY <1>1, <1>7, <2>2 DEF Exact, Usable
      <3>2. \A i \in 1 .. Len(Coming) : ~(i > Len(pending) /\ Coming[i].bomb.cell = c)
        BY <1>10 DEF Silent
      <3>. QED BY <2>2, <3>1, <3>2 DEF UpToDate
    <2>. QED BY <1>9, <2>1, <2>2
  <1>11. Exact(u, Len(pending))
    <2>1. StrictlyBehind(u, Len(pending)) /\ bricks = {brick \in u.bricks : Spared(brick, Len(pending))}
      BY <1>7, <1>9 DEF Exact, StrictlyBehind
    <2>2. \A s \in Snapshots : Told(s) => UpToDate(s, u, Len(pending))
      BY <1>7, <1>9 DEF Exact, UpToDate
    <2>. QED BY <1>10, <2>1, <2>2 DEF Exact
  <1>12. Exact(u, 0)' /\ LastWord' /\ InTurn'
    BY <1>1, <1>9, <1>11, ExactStays
  <1>13. Exact(View, 0)'
    BY <1>9, <1>12 DEF Exact, StrictlyBehind, UpToDate
  <1>. QED BY <1>12, <1>13 DEF ExactInv

\* A tick that places no bomb and sets none off.
Quiet == UNCHANGED <<bombs, bricks>> /\ Len(Coming') = Len(Coming)

\* A tick with one event, told of last.
Speaks(e) ==
  /\ Len(Coming') = Len(Coming) + 1 /\ Coming'[Len(Coming) + 1] = e
  /\ bricks' = bricks \ Gone(e)
  /\ AtCell(bombs', e.bomb.cell) = IF e.type = "BombPlaced" THEN {e.bomb} ELSE {}
  /\ \A c \in Cells : c # e.bomb.cell => AtCell(bombs', c) = AtCell(bombs, c)

\* A tick with room for one event does one thing or nothing.
LEMMA QuietOrSpeaks ==
  ASSUME MaxEventsPerTick = 1, Typed, FusesInv,
         NEW free, NEW places, NEW blasts, Ticks(free, places, blasts)
  PROVE  Quiet \/ \E e : Speaks(e)
  <1>1. /\ places \in ByCell(Placed(free)) /\ blasts \in ByCell(Due)
        /\ Len(places) + Len(blasts) <= 1
        /\ bombs' = (bombs \cup Placed(free)) \ Due
        /\ bricks' = bricks \ UNION {Reach[d.cell] : d \in Due}
        /\ free \in SUBSET (Cells \ {d.cell : d \in bombs})
    BY DEF Ticks
  <1>2. /\ Len(places) \in Nat /\ Len(blasts) \in Nat
        /\ \A i \in 1 .. Len(places) : places[i] \in Placed(free)
        /\ \A d \in Placed(free) : \E i \in 1 .. Len(places) : places[i] = d
        /\ \A i \in 1 .. Len(blasts) : blasts[i] \in Due
        /\ \A d \in Due : \E i \in 1 .. Len(blasts) : blasts[i] = d
    BY <1>1, Ordered
  <1>3. /\ Len(Coming) \in Nat
        /\ Len(Coming') = Len(Coming) + Len(places) + Len(blasts)
        /\ \A i \in 1 .. Len(places) :
             Coming'[Len(Coming) + i] = BombPlaced(serverTick + 1, places[i])
        /\ \A i \in 1 .. Len(blasts) :
             Coming'[Len(Coming) + Len(places) + i]
               = ExplosionResolved(serverTick + 1, blasts[i], Takes(blasts, i))
    BY EventsSent, ComingTyped
  <1>4. Len(places) = 0 => Placed(free) = {}
    BY <1>2
  <1>5. Len(blasts) = 0 => Due = {}
    BY <1>2
  <1>6. CASE Len(places) = 0 /\ Len(blasts) = 0
    <2>1. Placed(free) = {} /\ Due = {}
      BY <1>4, <1>5, <1>6
    <2>2. bombs' = bombs /\ bricks' = bricks
      BY <1>1, <2>1
    <2>3. Len(Coming') = Len(Coming)
      BY <1>3, <1>6
    <2>. QED BY <2>2, <2>3 DEF Quiet
  <1>7. CASE Len(places) = 1 /\ Len(blasts) = 0
    <2> DEFINE b == places[1]
               e == BombPlaced(serverTick + 1, b)
    <2>1. 1 \in 1 .. Len(places) /\ \A i \in 1 .. Len(places) : i = 1
      BY <1>7
    <2>2. Placed(free) = {b} /\ Due = {}
      BY <1>2, <1>5, <1>7, <2>1
    <2>3. \A d \in bombs : d.cell # b.cell
      BY <1>1, <2>2, PlacedTyped
    <2>4. bombs' = bombs \cup {b} /\ bricks' = bricks
      BY <1>1, <2>2
    <2>5. e.bomb = b /\ e.type = "BombPlaced"
      BY DEF BombPlaced
    <2>6. Len(Coming') = Len(Coming) + 1 /\ Coming'[Len(Coming) + 1] = e
      BY <1>3, <1>7, <2>1
    <2> HIDE DEF b, e
    <2>7. bricks' = bricks \ Gone(e)
      BY <2>4, <2>5 DEF Gone
    <2>8. AtCell(bombs', b.cell) = {b} /\ \A c : c # b.cell => AtCell(bombs', c) = AtCell(bombs, c)
      BY <2>3, <2>4 DEF AtCell
    <2>. QED BY <2>5, <2>6, <2>7, <2>8, ZenonT(40) DEF Speaks
  <1>8. CASE Len(places) = 0 /\ Len(blasts) = 1
    <2> DEFINE b == blasts[1]
               e == ExplosionResolved(serverTick + 1, b, Takes(blasts, 1))
    <2>1. 1 \in 1 .. Len(blasts) /\ \A i \in 1 .. Len(blasts) : i = 1
      BY <1>8
    <2>2. Placed(free) = {} /\ Due = {b}
      BY <1>2, <1>4, <1>8, <2>1
    <2>3. b \in bombs /\ \A d \in bombs : d.cell = b.cell => d = b
      BY <2>2, DueIs DEF FusesInv
    <2>4. bombs' = bombs \ {b} /\ bricks' = bricks \ Reach[b.cell]
      BY <1>1, <2>2
    <2>5. e.bomb = b /\ e.type = "ExplosionResolved" /\ e.destroyed = Takes(blasts, 1)
      BY DEF ExplosionResolved
    <2>6. Len(Coming') = Len(Coming) + 1 /\ Coming'[Len(Coming) + 1] = e
      <3>1. Len(Coming) + Len(places) + 1 = Len(Coming) + 1
        BY <1>3, <1>8
      <3>. QED BY <1>3, <1>8, <2>1, <3>1
    <2>7. Takes(blasts, 1) = Reach[b.cell] \cap bricks
      <3>1. 1 .. 1 - 1 = {}
        OBVIOUS
      <3>2. {Reach[blasts[j].cell] : j \in 1 .. 1 - 1} = {}
        BY <3>1
      <3>3. UNION {Reach[blasts[j].cell] : j \in 1 .. 1 - 1} = {}
        BY <3>2
      <3>4. Takes(blasts, 1) =
              (Reach[b.cell] \cap bricks) \ UNION {Reach[blasts[j].cell] : j \in 1 .. 1 - 1}
        BY DEF Takes
      <3>. QED BY <3>3, <3>4
    <2> HIDE DEF b, e
    <2>8. bricks' = bricks \ Gone(e)
      BY <2>4, <2>5, <2>7 DEF Gone
    <2>9. AtCell(bombs', b.cell) = {} /\ \A c : c # b.cell => AtCell(bombs', c) = AtCell(bombs, c)
      BY <2>3, <2>4 DEF AtCell
    <2>10. e.type # "BombPlaced"
      BY <2>5
    <2>11. AtCell(bombs', e.bomb.cell) = IF e.type = "BombPlaced" THEN {e.bomb} ELSE {}
      BY <2>5, <2>9, <2>10
    <2>12. Speaks(e)
      BY <2>5, <2>6, <2>8, <2>9, <2>11, Zenon DEF Speaks
    <2>. QED BY <2>12
  <1>9. Len(places) + Len(blasts) <= 1 /\ Len(places) \in Nat /\ Len(blasts) \in Nat
    BY <1>1, <1>2
  <1>10. \/ Len(places) = 0 /\ Len(blasts) = 0
         \/ Len(places) = 1 /\ Len(blasts) = 0
         \/ Len(places) = 0 /\ Len(blasts) = 1
    <2>1. \A p, q \in Nat : p + q <= 1 => \/ p = 0 /\ q = 0
                                          \/ p = 1 /\ q = 0
                                          \/ p = 0 /\ q = 1
      OBVIOUS
    <2>. QED BY <1>9, <2>1, Zenon
  <1>. QED BY <1>6, <1>7, <1>8, <1>10

\* What of the tick's snapshot, and of those before it.
LEMMA SnapshotOfTick ==
  ASSUME Grows, NEW s \in Snapshots, Told(s)'
  PROVE  Told(s) \/ s.bombs = bombs'
  <1>1. [tick |-> serverTick + 1, bombs |-> bombs'].bombs = bombs'
    OBVIOUS
  <1>. QED BY <1>1 DEF Grows

\* A tick without an event leaves the view exact.
LEMMA ExactOnQuiet ==
  ASSUME WorldInv, Typed', ExactInv, Grows, Quiet
  PROVE  ExactInv'
  <1> SUFFICES ASSUME ~broken' PROVE Exact(View, 0)' /\ LastWord' /\ InTurn'
    BY DEF ExactInv
  <1>1. ~broken /\ SameView /\ UNCHANGED <<bombs, bricks>>
    BY DEF Grows, Quiet
  <1>2. UNCHANGED Coming
    <2>1. Coming \in Seq(Events) /\ Coming' \in Seq(Events)
      BY DEF WorldInv, Typed, TypeOK, Coming
    <2>. QED BY <2>1 DEF Grows, Quiet
  <1>3. View' = View
    BY <1>1, ViewStays
  <1>4. Exact(View, 0) /\ LastWord /\ InTurn
    BY <1>1 DEF ExactInv
  <1>5. LastWord' /\ InTurn'
    BY <1>1, <1>2, <1>4 DEF LastWord, InTurn, Silent, AtCell
  <1>6. StrictlyBehind(View, 0)' /\ \A c, k : Silent(c, k)' <=> Silent(c, k)
    BY <1>2, <1>3, <1>4 DEF StrictlyBehind, Silent, Exact
  <1>7. bricks' = {brick \in View'.bricks : Spared(brick, 0)'}
    BY <1>1, <1>2, <1>3, <1>4 DEF Exact, Spared
  <1>8. \A c \in Cells : Silent(c, 0)' => AtCell(View'.bombs, c) = AtCell(bombs', c)
    BY <1>1, <1>3, <1>4, <1>6 DEF Exact
  <1>9. ASSUME NEW s \in Snapshots, Told(s)' PROVE UpToDate(s, View, 0)'
    <2>1. CASE Told(s)
      <3>1. UpToDate(s, View, 0)
        BY <1>4, <2>1 DEF Exact
      <3>. QED BY <1>1, <1>2, <1>3, <3>1 DEF UpToDate, AtCell
    <2>2. CASE s.bombs = bombs'
      BY <2>2 DEF UpToDate, AtCell
    <2>. QED BY <1>9, <2>1, <2>2, SnapshotOfTick
  <1>10. Exact(View, 0)'
    BY <1>6, <1>7, <1>8, <1>9 DEF Exact, AtCell
  <1>. QED BY <1>5, <1>10

\* A tick with one event leaves the view exact.
LEMMA ExactOnSpeech ==
  ASSUME WorldInv, Typed', ExactInv, Grows, NEW e, Speaks(e)
  PROVE  ExactInv'
  <1> SUFFICES ASSUME ~broken' PROVE Exact(View, 0)' /\ LastWord' /\ InTurn'
    BY DEF ExactInv
  <1> DEFINE n == Len(Coming)
  <1>1. /\ ~broken /\ SameView /\ Typed
        /\ n \in Nat /\ Len(Coming') = n + 1 /\ Coming'[n + 1] = e
        /\ \A i \in 1 .. n : Coming'[i] = Coming[i]
        /\ serverTick \in Nat /\ e.tick = serverTick + 1
    <2>1. n \in Nat /\ n + 1 \in 1 .. n + 1 /\ n + 1 > n
      BY ComingTyped DEF WorldInv
    <2>2. Len(Coming') = n + 1 /\ Coming'[n + 1] = e
      BY DEF Speaks
    <2>3. Coming'[n + 1].tick = serverTick + 1
      BY <2>1, <2>2 DEF Grows
    <2>. QED BY <2>1, <2>2, <2>3 DEF Grows, WorldInv, Typed, TypeOK
  <1>2. Exact(View, 0) /\ LastWord /\ InTurn
    BY <1>1 DEF ExactInv
  <1>3. PICK u : u = View
    OBVIOUS
  <1>4. /\ u \in Views /\ View' = u /\ Exact(u, 0) /\ u.event \in Nat /\ u.event <= serverTick
    <2>1. View \in Views /\ View' = View /\ View.event <= serverTick
      BY <1>1, ViewTyped, ViewStays DEF WorldInv, ReturnsInv, Behind
    <2>. QED BY <1>2, <1>3, <2>1 DEF Views
  <1>5. \A i \in 1 .. n : i \in 1 .. n + 1 /\ i > 0 /\ i < n + 1
    BY <1>1
  <1>6. n + 1 \in 1 .. n + 1 /\ n + 1 > 0
    BY <1>1
  <1>7. \A i \in 1 .. n + 1 : i = n + 1 \/ i \in 1 .. n
    BY <1>1
  <1>8. \A i \in 1 .. n : Coming[i].tick \in Nat /\ Coming[i].tick <= serverTick
    BY <1>1, ComingTyped DEF WorldInv, EventsInv
  <1>9. /\ bricks' = bricks \ Gone(e)
        /\ AtCell(bombs', e.bomb.cell) = IF e.type = "BombPlaced" THEN {e.bomb} ELSE {}
        /\ \A c \in Cells : c # e.bomb.cell => AtCell(bombs', c) = AtCell(bombs, c)
    BY DEF Speaks
  <1>10. \A c, k : Silent(c, k)' => Silent(c, k)
    BY <1>1, <1>5 DEF Silent
  <1>11. \A c, k : n + 1 > k /\ Silent(c, k)' => c # e.bomb.cell
    BY <1>1, <1>6 DEF Silent
  <1>12. StrictlyBehind(u, 0)'
    <2>1. \A i \in 1 .. n : u.event < Coming[i].tick
      BY <1>4, <1>5 DEF Exact, StrictlyBehind
    <2>2. u.event < e.tick
      BY <1>1, <1>4
    <2>. QED BY <1>1, <1>7, <2>1, <2>2 DEF StrictlyBehind
  <1>13. bricks' = {brick \in u.bricks : Spared(brick, 0)'}
    <2>1. \A brick : Spared(brick, 0)' <=> Spared(brick, 0) /\ brick \notin Gone(e)
      BY <1>1, <1>5, <1>6, <1>7 DEF Spared
    <2>2. bricks = {brick \in u.bricks : Spared(brick, 0)}
      BY <1>4 DEF Exact
    <2>. QED BY <1>9, <2>1, <2>2
  <1>14. ASSUME NEW c \in Cells, Silent(c, 0)' PROVE AtCell(u.bombs, c) = AtCell(bombs', c)
    <2>1. c # e.bomb.cell /\ Silent(c, 0)
      BY <1>6, <1>10, <1>11, <1>14
    <2>. QED BY <1>4, <1>9, <2>1 DEF Exact
  <1>15. ASSUME NEW s \in Snapshots, Told(s)' PROVE UpToDate(s, u, 0)'
    <2>1. CASE Told(s)
      <3>1. UpToDate(s, u, 0) /\ s.tick <= serverTick /\ s.tick \in Nat
        BY <1>4, <2>1 DEF Exact, WorldInv, SnapshotsInv, Snapshots
      <3> SUFFICES ASSUME s.tick > u.event, NEW c \in Cells,
                          \A i \in 1 .. Len(Coming') :
                            i > 0 /\ Coming'[i].bomb.cell = c => Coming'[i].tick <= s.tick
                   PROVE  AtCell(s.bombs, c) = AtCell(bombs', c)
        BY DEF UpToDate, AtCell
      <3>2. c # e.bomb.cell
        <4>1. ~(e.tick <= s.tick)
          BY <1>1, <3>1
        <4>. QED BY <1>1, <1>6, <4>1
      <3>3. \A i \in 1 .. n : i > 0 /\ Coming[i].bomb.cell = c => Coming[i].tick <= s.tick
        BY <1>1, <1>5
      <3>4. AtCell(s.bombs, c) = AtCell(bombs, c)
        BY <3>1, <3>3 DEF UpToDate
      <3>. QED BY <1>9, <3>2, <3>4
    <2>2. CASE s.bombs = bombs'
      BY <2>2 DEF UpToDate, AtCell
    <2>. QED BY <1>15, <2>1, <2>2, SnapshotOfTick
  <1>16. Exact(View, 0)'
    <2>1. Exact(u, 0)'
      BY <1>12, <1>13, <1>14, <1>15 DEF Exact, AtCell
    <2>. QED BY <1>4, <2>1 DEF Exact, StrictlyBehind, UpToDate
  <1>17. LastWord'
    <2> SUFFICES ASSUME NEW i \in 1 .. Len(Coming'),
                        \A j \in 1 .. Len(Coming') : j > i => Coming'[j].bomb.cell # Coming'[i].bomb.cell
                 PROVE  AtCell(bombs', Coming'[i].bomb.cell) =
                          IF Coming'[i].type = "BombPlaced" THEN {Coming'[i].bomb} ELSE {}
      BY DEF LastWord, AtCell, Silent
    <2>1. CASE i = n + 1
      BY <1>1, <1>9, <2>1
    <2>2. CASE i \in 1 .. n
      <3>1. Coming'[i] = Coming[i] /\ i < n + 1 /\ Coming[i].bomb.cell \in Cells
        BY <1>1, <1>5, <2>2, ComingTyped
      <3>2. Coming[i].bomb.cell # e.bomb.cell
        BY <1>1, <1>6, <3>1
      <3>3. Silent(Coming[i].bomb.cell, i)
        BY <1>1, <1>5, <3>1 DEF Silent
      <3>4. AtCell(bombs, Coming[i].bomb.cell) = IF Coming[i].type = "BombPlaced" THEN {Coming[i].bomb} ELSE {}
        BY <1>2, <2>2, <3>3 DEF LastWord
      <3>5. AtCell(bombs', Coming[i].bomb.cell) = AtCell(bombs, Coming[i].bomb.cell)
        BY <1>9, <3>1, <3>2
      <3>. QED BY <3>1, <3>4, <3>5
    <2>. QED BY <1>1, <1>7, <2>1, <2>2
  <1>18. InTurn'
    <2> SUFFICES ASSUME NEW i \in 1 .. Len(Coming'), NEW j \in 1 .. Len(Coming'), i < j
                 PROVE  Coming'[i].tick < Coming'[j].tick
      BY DEF InTurn
    <2>1. i \in 1 .. n
      BY <1>1
    <2>2. CASE j = n + 1
      BY <1>1, <1>8, <2>1, <2>2
    <2>3. CASE j \in 1 .. n
      BY <1>1, <1>2, <2>1, <2>3 DEF InTurn
    <2>. QED BY <1>1, <1>7, <2>2, <2>3
  <1>. QED BY <1>16, <1>17, <1>18

\* The view is exact at first.
LEMMA ExactAtFirst == ASSUME Init PROVE ExactInv
  <1>1. Coming = <<>> /\ 1 .. Len(Coming) = {}
    BY DEF Init, Coming
  <1>2. View.bombs = {} /\ View.bricks = Bricks /\ View.event = 0 /\ bombs = {} /\ bricks = Bricks
    BY DEF Init, View
  <1>3. \A s : Told(s) => s.bombs = bombs
    <2>1. \A s : Told(s) => s = NoSnapshot
      BY DEF Init, Told
    <2>. QED BY <1>2, <2>1 DEF NoSnapshot
  <1>4. LastWord /\ InTurn /\ StrictlyBehind(View, 0)
    BY <1>1 DEF LastWord, InTurn, StrictlyBehind
  <1>5. bricks = {brick \in View.bricks : Spared(brick, 0)}
    BY <1>1, <1>2 DEF Spared
  <1>6. \A c \in Cells : AtCell(View.bombs, c) = AtCell(bombs, c)
    BY <1>2
  <1>7. \A s \in Snapshots : Told(s) => UpToDate(s, View, 0)
    BY <1>3 DEF UpToDate
  <1>. QED BY <1>4, <1>5, <1>6, <1>7 DEF ExactInv, Exact

\* With one event a tick, the view stays exact.
LEMMA ExactKept ==
  ASSUME MaxEventsPerTick = 1, WorldInv, ExactInv, [Next]_vars
  PROVE  ExactInv'
  <1>1. Typed /\ FusesInv
    BY DEF WorldInv
  <1>2. Typed' /\ (Receives \/ Hears \/ Shows \/ \E free, places, blasts : Ticks(free, places, blasts))
    BY <1>1, Steps
  <1>3. CASE Receives \/ Hears
    BY <1>2, <1>3, ExactOnHear
  <1>4. CASE Shows
    BY <1>2, <1>4, ExactOnShow
  <1>5. ASSUME NEW free, NEW places, NEW blasts, Ticks(free, places, blasts) PROVE ExactInv'
    <2>1. Grows
      BY <1>1, <1>5, TickCase
    <2>2. Quiet \/ \E e : Speaks(e)
      BY <1>1, <1>5, QuietOrSpeaks
    <2>. QED BY <1>2, <2>1, <2>2, ExactOnQuiet, ExactOnSpeech
  <1>. QED BY <1>2, <1>3, <1>4, <1>5

\* With one event a tick, the view is always exact.
LEMMA ExactAlways == ASSUME MaxEventsPerTick = 1 PROVE Spec => [](WorldInv /\ ExactInv)
  <1>1. Init => WorldInv /\ ExactInv
    BY WorldAtFirst, ExactAtFirst
  <1>2. WorldInv /\ ExactInv /\ [Next]_vars => (WorldInv /\ ExactInv)'
    BY WorldKept, ExactKept
  <1>. QED BY <1>1, <1>2, PTL DEF Spec

\* What an exact view shows once no event is left to come.
LEMMA Converged ==
  ASSUME WorldInv, ExactInv, AllEventsShown
  PROVE  shownBricks = bricks /\ shownBombs = bombs
  <1>1. Coming = <<>> /\ 1 .. Len(Coming) = {}
    BY DEF AllEventsShown, Coming
  <1>2. Exact(View, 0) /\ View.bombs = shownBombs /\ View.bricks = shownBricks
    BY ViewTyped DEF AllEventsShown, ExactInv, WorldInv
  <1>3. shownBricks = bricks
    BY <1>1, <1>2 DEF Exact, Spared
  <1>4. \A c \in Cells : AtCell(shownBombs, c) = AtCell(bombs, c)
    BY <1>1, <1>2 DEF Exact, Silent
  <1>5. /\ \A b \in shownBombs : b.cell \in Cells /\ b \in AtCell(shownBombs, b.cell)
        /\ \A b \in bombs : b.cell \in Cells /\ b \in AtCell(bombs, b.cell)
    BY DEF WorldInv, Typed, TypeOK, Bombs, AtCell
  <1>6. shownBombs = bombs
    BY <1>4, <1>5 DEF AtCell
  <1>. QED BY <1>3, <1>6

\* Where a tick has one event at most, a client that has been shown every event
\* sees the bricks the server has (applyExplosionEvent, the authority merge).
THEOREM BricksCorrect == ASSUME MaxEventsPerTick = 1 PROVE Spec => []BricksConverge
  <1>1. WorldInv /\ ExactInv => BricksConverge
    BY Converged DEF BricksConverge
  <1>. QED BY <1>1, ExactAlways, PTL

\* And the bombs, whichever snapshots it has had (applySnapshot).
THEOREM BombsCorrect == ASSUME MaxEventsPerTick = 1 PROVE Spec => []BombsConverge
  <1>1. WorldInv /\ ExactInv => BombsConverge
    BY Converged DEF BombsConverge
  <1>. QED BY <1>1, ExactAlways, PTL
=============================================================================
