----------------------------- MODULE ClientWorld -----------------------------
(***************************************************************************)
(* One client's picture of the arena during a match: the server's bombs    *)
(* and bricks, the reliable gameplay events and unreliable snapshots that  *)
(* tell the client about them, and the scene's merge of the two            *)
(* (ServerBombs.cpp, NetClient.Protocol.cpp and the authority merge of     *)
(* MultiplayerLevelScene).                                                 *)
(*                                                                         *)
(* Events come once and in order, snapshots in order or not at all (ENet's *)
(* unreliable packets are sequenced), and the two channels do not wait for *)
(* each other.                                                             *)
(*                                                                         *)
(* Abstractions.                                                           *)
(*  - A cell is a number, in the server's row and column order; Reach[c]   *)
(*    is the set of bricks in reach of a bomb at c, and a bomb is its cell *)
(*    and the tick it was placed at.  The client knows the cell only: the  *)
(*    tick is there to tell a bomb from a later one in its place.          *)
(*  - Bricks shield none of the others: Reach does not grow as they go.    *)
(*  - Who may place a bomb where, and whom it kills, is left open.         *)
(*  - Players and powerups are left out of events and snapshots, and the   *)
(*    end of the match, which clears bombs and snapshots, is not reached.  *)
(***************************************************************************)
EXTENDS Integers, Sequences, SequencesExt

CONSTANTS
  Cells,             \* where a bomb can be placed
  Bricks,            \* bricks of the map
  Reach,             \* bricks in reach of a bomb at each cell
  FuseTicks,         \* kDefaultBombFuseTicks
  SnapshotInterval,  \* snapshotIntervalTicks
  MaxPending,        \* kMaxPendingGameplayEvents
  MaxEventsPerTick,  \* bound of the model: gameplay events of one server tick
  MaxTick            \* bound of the model

ASSUME CellsAssumption == Cells \subseteq Nat
ASSUME ReachAssumption == Reach \in [Cells -> SUBSET Bricks]
ASSUME TicksAssumption == {FuseTicks, SnapshotInterval, MaxPending} \subseteq Nat \ {0}
ASSUME BoundsAssumption == {MaxEventsPerTick, MaxTick} \subseteq Nat

VARIABLES
  serverTick, bombs, bricks,      \* the server's arena
  eventsInFlight,                 \* reliable gameplay channel
  snapshotsInFlight,              \* unreliable snapshot channel
  pending, broken,                \* pendingGameplayEvents, brokenGameplayEventStream
  latest,                         \* matchFlow.snapshot
  shownBombs, shownBricks,        \* bombPresentations_, the scene's brick tiles
  lastSnapshot, lastEvent,        \* lastAppliedSnapshotTick_, ...GameplayEventTick_
  left,                           \* the scene gave the match up
  exploded                        \* history: bombs whose explosion was shown

serverVars == <<serverTick, bombs, bricks>>
queueVars == <<pending, broken, latest>>
sceneVars == <<shownBombs, shownBricks, lastSnapshot, lastEvent, left, exploded>>
vars == <<serverVars, eventsInFlight, snapshotsInFlight, queueVars, sceneVars>>

Bombs == [cell : Cells, placed : Nat]
NoSnapshot == [tick |-> 0, bombs |-> {}]

BombPlaced(tick, bomb) ==
  [type |-> "BombPlaced", tick |-> tick, bomb |-> bomb, destroyed |-> {}]
ExplosionResolved(tick, bomb, destroyed) ==
  [type |-> "ExplosionResolved", tick |-> tick, bomb |-> bomb, destroyed |-> destroyed]
Events == [type : {"BombPlaced", "ExplosionResolved"}, tick : Nat, bomb : Bombs,
           destroyed : SUBSET Bricks]
Snapshots == [tick : Nat, bombs : SUBSET Bombs]

-----------------------------------------------------------------------------
(* The server's tick. *)

\* The bombs of a tick in the order of their cells, as many as it has events for.
ByCell(set) ==
  {order \in SeqOf(set, MaxEventsPerTick) :
     /\ \A i, j \in DOMAIN order : i < j => order[i].cell < order[j].cell
     /\ \A b \in set : \E i \in DOMAIN order : order[i] = b}

\* tryPlaceBomb, for each bomb placed.
Placements(tick, order) == [i \in 1 .. Len(order) |-> BombPlaced(tick, order[i])]

\* resolveBombExplosion for each due bomb in turn: a brick goes with the first
\* explosion that reaches it.
Explosions(tick, order) ==
  [i \in 1 .. Len(order) |->
     ExplosionResolved(tick, order[i],
       (Reach[order[i].cell] \cap bricks) \ UNION {Reach[order[j].cell] : j \in 1 .. i - 1})]

\* Players place bombs on unoccupied cells (in the order of their ids, which
\* makes no difference to the client), then due bombs explode, then the snapshot
\* is taken.
ServerTick ==
  LET tick == serverTick + 1
      due  == {b \in bombs : b.placed + FuseTicks <= tick}
  IN
  /\ tick <= MaxTick
  /\ serverTick' = tick
  /\ \E free \in SUBSET (Cells \ {b.cell : b \in bombs}) :
       LET placed == {[cell |-> c, placed |-> tick] : c \in free} IN
       /\ bombs' = (bombs \cup placed) \ due
       /\ bricks' = bricks \ UNION {Reach[b.cell] : b \in due}
       /\ \E places \in ByCell(placed), blasts \in ByCell(due) :
            /\ Len(places) + Len(blasts) <= MaxEventsPerTick
            /\ eventsInFlight' = eventsInFlight \o Placements(tick, places)
                                   \o Explosions(tick, blasts)
  /\ snapshotsInFlight' = IF tick % SnapshotInterval = 0
                          THEN Append(snapshotsInFlight, [tick |-> tick, bombs |-> bombs'])
                          ELSE snapshotsInFlight
  /\ UNCHANGED <<queueVars, sceneVars>>

LoseSnapshot ==
  /\ snapshotsInFlight # <<>>
  /\ snapshotsInFlight' = Tail(snapshotsInFlight)
  /\ UNCHANGED <<serverVars, eventsInFlight, queueVars, sceneVars>>

-----------------------------------------------------------------------------
(* The client's network pump. *)

\* Mutant: events beyond the limit are dropped in silence.
EnqueueOrDrop(event) ==
  /\ pending' = IF Len(pending) < MaxPending THEN Append(pending, event) ELSE pending
  /\ UNCHANGED broken

\* enqueueGameplayEvent: past the limit the whole stream is given up.
EnqueueGameplayEvent(event) ==
  IF broken THEN UNCHANGED <<pending, broken>>
  ELSE IF Len(pending) >= MaxPending THEN pending' = <<>> /\ broken' = TRUE
  ELSE pending' = Append(pending, event) /\ UNCHANGED broken

ReceiveGameplayEvent ==
  /\ eventsInFlight # <<>>
  /\ eventsInFlight' = Tail(eventsInFlight)
  /\ EnqueueGameplayEvent(Head(eventsInFlight))
  /\ UNCHANGED <<serverVars, snapshotsInFlight, latest, sceneVars>>

\* handleSnapshot keeps the newest.
ReceiveSnapshot ==
  /\ snapshotsInFlight # <<>>
  /\ snapshotsInFlight' = Tail(snapshotsInFlight)
  /\ latest' = IF Head(snapshotsInFlight).tick > latest.tick THEN Head(snapshotsInFlight)
                                                              ELSE latest
  /\ UNCHANGED <<serverVars, eventsInFlight, pending, broken, sceneVars>>

-----------------------------------------------------------------------------
(* The scene's update.  A view is the scene's part of the state.            *)

View == [bombs |-> shownBombs, bricks |-> shownBricks, snapshot |-> lastSnapshot,
         event |-> lastEvent, exploded |-> exploded]

AtCell(shown, cell) == {b \in shown : b.cell = cell}

\* Mutant: an explosion leaves the bomb for the next snapshot to remove.
ExplosionKeepsBomb(view, event) ==
  IF event.type = "BombPlaced"
  THEN [view EXCEPT !.bombs = (@ \ AtCell(@, event.bomb.cell)) \cup {event.bomb},
                    !.event = Max({@, event.tick})]
  ELSE IF event.tick <= view.event THEN view
  ELSE [view EXCEPT !.bricks = @ \ event.destroyed,
                    !.event = event.tick, !.exploded = @ \cup {event.bomb}]

\* applyNextPendingGameplayEvent.  A placement always counts; an explosion only
\* if its tick is later than that of every event applied before.
ApplyGameplayEvent(view, event) ==
  IF event.type = "BombPlaced"
  THEN [view EXCEPT !.bombs = (@ \ AtCell(@, event.bomb.cell)) \cup {event.bomb},
                    !.event = Max({@, event.tick})]
  ELSE IF event.tick <= view.event THEN view
  ELSE [view EXCEPT !.bombs = @ \ AtCell(@, event.bomb.cell), !.bricks = @ \ event.destroyed,
                    !.event = event.tick, !.exploded = @ \cup {event.bomb}]

\* Mutant: only older snapshots are refused, not those older than an event.
NewerThanSnapshot(view) == latest.tick > view.snapshot

Usable(view) == latest.tick > view.snapshot /\ latest.tick > view.event

\* applySnapshot, which replaces all bombs.
ApplySnapshot(view) == [view EXCEPT !.bombs = latest.bombs, !.snapshot = latest.tick]

\* consumeAuthoritativeNetState: the events in turn, with the snapshot before the
\* first of them that is not older, or after them all.
Consume(view, event) ==
  ApplyGameplayEvent(IF Usable(view) /\ event.tick >= latest.tick THEN ApplySnapshot(view) ELSE view,
                     event)

Merge(view, events) ==
  LET shown == FoldLeft(Consume, view, events)
  IN  IF Usable(shown) THEN ApplySnapshot(shown) ELSE shown

\* updateLevel, once a frame: every queued event is used up, unless the stream
\* is broken, in which case the scene leaves for the menu.
UpdateLevel ==
  /\ ~left
  /\ UNCHANGED <<serverVars, eventsInFlight, snapshotsInFlight, broken, latest>>
  /\ IF broken
     THEN left' = TRUE /\ UNCHANGED <<pending, shownBombs, shownBricks, lastSnapshot,
                                      lastEvent, exploded>>
     ELSE LET view == Merge(View, pending) IN
          /\ pending' = <<>>
          /\ shownBombs' = view.bombs /\ shownBricks' = view.bricks
          /\ lastSnapshot' = view.snapshot /\ lastEvent' = view.event
          /\ exploded' = view.exploded
          /\ UNCHANGED left

-----------------------------------------------------------------------------
Init ==
  /\ serverTick = 0 /\ bombs = {} /\ bricks = Bricks
  /\ eventsInFlight = <<>> /\ snapshotsInFlight = <<>>
  /\ pending = <<>> /\ broken = FALSE /\ latest = NoSnapshot
  /\ shownBombs = {} /\ shownBricks = Bricks
  /\ lastSnapshot = 0 /\ lastEvent = 0
  /\ left = FALSE /\ exploded = {}

Next ==
  \/ ServerTick \/ LoseSnapshot
  \/ ReceiveGameplayEvent \/ ReceiveSnapshot
  \/ UpdateLevel

Spec == Init /\ [][Next]_vars

-----------------------------------------------------------------------------
TypeOK ==
  /\ serverTick \in Nat /\ bombs \subseteq Bombs /\ bricks \subseteq Bricks
  /\ eventsInFlight \in Seq(Events) /\ snapshotsInFlight \in Seq(Snapshots)
  /\ pending \in Seq(Events) /\ Len(pending) <= MaxPending
  /\ broken \in BOOLEAN /\ latest \in Snapshots
  /\ shownBombs \subseteq Bombs /\ shownBricks \subseteq Bricks
  /\ lastSnapshot \in Nat /\ lastEvent \in Nat
  /\ left \in BOOLEAN /\ exploded \subseteq Bombs

(***************************************************************************)
(* A bomb seen to explode is never seen again, whatever snapshot or event  *)
(* comes late: the two channels overtake each other, and a snapshot taken  *)
(* before the explosion may well arrive after it.                          *)
(* (consumeAuthoritativeNetState, applySnapshot, applyBombPlacedEvent.)    *)
(***************************************************************************)
NoBombReturns == shownBombs \cap exploded = {}

AllEventsShown == ~broken /\ eventsInFlight = <<>> /\ pending = <<>>

(***************************************************************************)
(* A client that has been shown every gameplay event sees the bricks the   *)
(* server has: docs/testing.md expects destroyed bricks never to remain.   *)
(* Bricks come with events only, so one that is missed stays for good.     *)
(***************************************************************************)
BricksConverge == AllEventsShown => shownBricks = bricks

(***************************************************************************)
(* And it sees the bombs the server has, without waiting for a snapshot    *)
(* and whichever snapshots it has had.                                     *)
(***************************************************************************)
BombsConverge == AllEventsShown => shownBombs = bombs
=============================================================================
