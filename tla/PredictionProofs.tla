-------------------------- MODULE PredictionProofs --------------------------
(***************************************************************************)
(* What is proved of the client's prediction, for any size of its history, *)
(* any map, any speeds and any inputs.                                     *)
(*                                                                         *)
(* Where inputs lead is a recursive function on a range of sequences: Walk *)
(* is that function for given buttons, WalkSteps says that it exists and   *)
(* WalkIs that nothing else satisfies its equations, both by induction on  *)
(* Nat.  The replay of the ring and the walk of an unbounded history are   *)
(* then the same as soon as the ring retains what is replayed.             *)
(*                                                                         *)
(* The invariant PredictionInv:                                            *)
(*  - RingsInv: a slot holds nothing or a sequence that belongs in it, with*)
(*    the buttons pressed for it; states are kept only while predicting;   *)
(*  - ServerInv: a correction under way is what the server made of its     *)
(*    sequence;                                                            *)
(*  - BaselineInv: what the client goes by is such a correction, the last  *)
(*    accepted;                                                            *)
(*  - ReplayInv: while the map is that of the baseline, the client and     *)
(*    every state it keeps lie on the walk from the baseline.              *)
(***************************************************************************)
EXTENDS Prediction, WellFoundedInduction, TLAPS

Rounds == {"locked", "open", "dead"}
Predictions ==
  [phase : {"AwaitingBaseline", "Active", "Recovering"},
   recorded : Nat, authoritative : Nat, catchUp : Nat, pos : Positions, fast : BOOLEAN,
   inputs : [Slots -> {NoEntry} \cup [seq : Nat \ {0}, buttons : Inputs]],
   states : [Slots -> {NoEntry} \cup [seq : Nat \ {0}, pos : Positions]]]
Corrections == [seq : Nat, pos : Positions, fast : BOOLEAN, round : Rounds]
Baselines == [correction : Corrections, map : {StartTiles, OpenTiles}, recorded : Nat, sent : Nat]

\* The types, in full.
Typed ==
  /\ prediction \in Predictions
  /\ prediction.recorded \in {0, Len(pressed)}
  /\ prediction.authoritative <= LastProcessed
  /\ prediction.catchUp <= prediction.recorded
  /\ tiles \in {StartTiles, OpenTiles} /\ serverTiles \in {StartTiles, OpenTiles}
  /\ latestCorrection \in {None} \cup Corrections
  /\ baseline \in {None} \cup Baselines
  /\ pressed \in Seq(Inputs) /\ Len(pressed) <= MaxSeq
  /\ served \in Seq([buttons : Inputs, pos : Positions]) /\ Len(served) <= MaxSeq + 1
  /\ serverPos \in Positions /\ lastApplied \in Inputs
  /\ round \in Rounds /\ boosted \in BOOLEAN

\* Entries are where their sequences belong, with what was pressed for them.
RingsInv ==
  /\ \A i \in Slots : prediction.inputs[i] # NoEntry =>
       LET entry == prediction.inputs[i] IN
       /\ entry.seq <= prediction.recorded /\ HistorySlot(entry.seq) = i
       /\ entry.buttons = pressed[entry.seq]
  /\ \A i \in Slots : prediction.states[i] # NoEntry =>
       /\ prediction.phase = "Active"
       /\ prediction.states[i].seq <= prediction.recorded

\* Where the server has the player after a number of sequences.
PosAt(n) == IF n = 0 THEN CentreOf(SpawnCell) ELSE served[n].pos

\* A correction says where the server had the player.
Authority(correction) ==
  /\ correction.seq <= LastProcessed /\ correction.pos = PosAt(correction.seq)
  /\ correction.fast => boosted

\* As long as nothing has changed, the server walks, too.
ServerInv ==
  /\ serverPos = PosAt(LastProcessed)
  /\ serverTiles = StartTiles /\ ~boosted =>
       \A n \in 1 .. LastProcessed :
         served[n].pos = Moved(PosAt(n - 1), served[n].buttons, FALSE, StartTiles)
  /\ latestCorrection # None => Authority(latestCorrection)
  /\ tiles \in {StartTiles, serverTiles}

\* A client that has a baseline goes by it.
BaselineInv ==
  prediction.phase # "AwaitingBaseline" =>
    /\ baseline # None /\ Authority(baseline.correction)
    /\ baseline.map \in {StartTiles, tiles}
    /\ baseline.sent <= Len(pressed) /\ baseline.recorded <= Len(pressed)
    /\ prediction.authoritative = baseline.correction.seq
    /\ prediction.fast = baseline.correction.fast
    /\ prediction.phase = "Recovering" => prediction.pos = baseline.correction.pos

\* Where the buttons of from + 1 .. to lead from a position.
Walk(pos, from, to, buttons, fast, map) ==
  LET at[seq \in from .. to] ==
        IF seq = from THEN pos ELSE Moved(at[seq - 1], buttons[seq], fast, map)
  IN at
\* Where the inputs pressed lead from the baseline.
Path == Walk(baseline.correction.pos, PredictedAfter, Len(pressed), pressed,
             baseline.correction.fast, tiles)

\* While the map is still the baseline's, all that is predicted is on the path.
ReplayInv ==
  prediction.phase = "Active" /\ baseline.map = tiles =>
    /\ prediction.pos = Path[Len(pressed)]
    /\ \A i \in Slots : prediction.states[i] # NoEntry =>
         LET entry == prediction.states[i] IN
         entry.seq > PredictedAfter /\ entry.pos = Path[entry.seq]

PredictionInv == Typed /\ RingsInv /\ ServerInv /\ BaselineInv /\ ReplayInv

-----------------------------------------------------------------------------
(* Walks. *)

\* Whatever holds of 0 and is handed on by every number holds of all.
LEMMA Induction ==
  ASSUME NEW S, 0 \in S, \A n \in Nat : n \in S => n + 1 \in S
  PROVE  \A n \in Nat : n \in S
  <1> DEFINE R == OpToRel(<, Nat)
             T == {n \in Nat : n \notin S}
  <1>1. IsWellFoundedOn(R, Nat)
    BY NatLessThanWellFounded
  <1>2. \A x, y \in Nat : y < x => <<y, x>> \in R
    BY DEF OpToRel
  <1>3. ASSUME NEW n \in T PROVE FALSE
    <2>1. T \subseteq Nat /\ T # {}
      BY <1>3
    <2> HIDE DEF R, T
    <2>2. PICK x \in T : \A y \in T : ~(<<y, x>> \in R)
      BY <1>1, <2>1, WFMin
    <2>3. x \in Nat /\ x \notin S
      BY DEF T
    <2>4. x # 0 /\ x - 1 \in Nat /\ x - 1 < x
      BY <2>3
    <2>5. x - 1 \notin T
      BY <1>2, <2>2, <2>3, <2>4
    <2>6. x - 1 \in S /\ (x - 1) + 1 = x
      BY <2>4, <2>5 DEF T
    <2>. QED BY <2>3, <2>4, <2>6
  <1>. QED BY <1>3

\* The equation that Walk's function satisfies.
WalkOf(at, pos, from, to, buttons, fast, map) ==
  at = [seq \in from .. to |->
          IF seq = from THEN pos ELSE Moved(at[seq - 1], buttons[seq], fast, map)]

\* There is a walk of every length.
LEMMA WalkExists ==
  ASSUME NEW pos, NEW from \in Nat, NEW to \in Nat, NEW buttons, NEW fast, NEW map
  PROVE  \E at : WalkOf(at, pos, from, to, buttons, fast, map)
  <1> DEFINE S == {n \in Nat : \E at : WalkOf(at, pos, from, from + n, buttons, fast, map)}
  <1>1. 0 \in S
    <2> DEFINE g == [seq \in from .. from + 0 |-> pos]
    <2>1. WalkOf(g, pos, from, from + 0, buttons, fast, map)
      BY DEF WalkOf
    <2>. QED BY <2>1
  <1>2. ASSUME NEW n \in Nat, n \in S PROVE n + 1 \in S
    <2>1. PICK g : WalkOf(g, pos, from, from + n, buttons, fast, map)
      BY <1>2
    <2> DEFINE h == [seq \in from .. from + (n + 1) |->
                       IF seq = from + (n + 1) THEN Moved(g[from + n], buttons[seq], fast, map)
                       ELSE g[seq]]
    <2>2. ASSUME NEW seq \in from .. from + (n + 1)
          PROVE  h[seq] = IF seq = from THEN pos ELSE Moved(h[seq - 1], buttons[seq], fast, map)
      <3>1. CASE seq = from + (n + 1)
        <4>1. h[seq] = Moved(g[from + n], buttons[seq], fast, map) /\ h[seq - 1] = g[from + n]
          BY <3>1
        <4>. QED BY <3>1, <4>1
      <3>2. CASE seq # from + (n + 1)
        <4>1. h[seq] = g[seq] /\ seq \in from .. from + n
          BY <3>2
        <4>2. g[seq] = IF seq = from THEN pos ELSE Moved(g[seq - 1], buttons[seq], fast, map)
          BY <2>1, <4>1 DEF WalkOf
        <4>3. seq # from => h[seq - 1] = g[seq - 1]
          BY <4>1
        <4>. QED BY <4>1, <4>2, <4>3
      <3>. QED BY <3>1, <3>2
    <2> DEFINE e == [seq \in from .. from + (n + 1) |->
                       IF seq = from THEN pos ELSE Moved(h[seq - 1], buttons[seq], fast, map)]
    <2>3. h = e
      <3>1. \A seq \in from .. from + (n + 1) :
              e[seq] = IF seq = from THEN pos ELSE Moved(h[seq - 1], buttons[seq], fast, map)
        OBVIOUS
      <3>2. h = [seq \in from .. from + (n + 1) |-> h[seq]]
        OBVIOUS
      <3>. QED BY <2>2, <3>2
    <2>4. WalkOf(h, pos, from, from + (n + 1), buttons, fast, map)
      BY <2>3 DEF WalkOf
    <2>. QED BY <2>4
  <1> HIDE DEF S
  <1>3. \A n \in Nat : n \in S
    BY <1>1, <1>2, Induction
  <1>4. CASE from <= to
    <2>1. to - from \in Nat /\ from + (to - from) = to
      BY <1>4
    <2>. QED BY <1>3, <2>1 DEF S
  <1>5. CASE from > to
    <2>1. from .. to = {}
      BY <1>5
    <2>2. WalkOf([seq \in {} |-> pos], pos, from, to, buttons, fast, map)
      BY <2>1 DEF WalkOf
    <2>. QED BY <2>2
  <1>. QED BY <1>4, <1>5

\* What starts from a position and goes step by step.
GoesFrom(at, pos, from, to, buttons, fast, map) ==
  /\ at[from] = pos
  /\ \A seq \in from + 1 .. to : at[seq] = Moved(at[seq - 1], buttons[seq], fast, map)

\* Walk does.
LEMMA WalkSteps ==
  ASSUME NEW pos, NEW from \in Nat, NEW to \in Nat, from <= to, NEW buttons, NEW fast, NEW map
  PROVE  GoesFrom(Walk(pos, from, to, buttons, fast, map), pos, from, to, buttons, fast, map)
  <1> DEFINE at == Walk(pos, from, to, buttons, fast, map)
  <1>1. at = CHOOSE g : WalkOf(g, pos, from, to, buttons, fast, map)
    BY Zenon DEF Walk, WalkOf
  <1>2. WalkOf(at, pos, from, to, buttons, fast, map)
    BY <1>1, WalkExists, Zenon
  <1> HIDE DEF at
  <1>3. at[from] = pos /\ \A seq \in from + 1 .. to : at[seq] = Moved(at[seq - 1], buttons[seq], fast, map)
    BY <1>2 DEF WalkOf
  <1>. QED BY <1>3 DEF at, GoesFrom

\* What is Walk as far as it goes.
OnWalk(at, last, pos, from, to, buttons, fast, map) ==
  \A seq \in from .. last : at[seq] = Walk(pos, from, to, buttons, fast, map)[seq]

\* Nothing else does.
LEMMA WalkIs ==
  ASSUME NEW pos, NEW from \in Nat, NEW to \in Nat, from <= to, NEW buttons, NEW fast, NEW map,
         NEW f, NEW last \in from .. to, GoesFrom(f, pos, from, last, buttons, fast, map)
  PROVE  OnWalk(f, last, pos, from, to, buttons, fast, map)
  <1> DEFINE at == Walk(pos, from, to, buttons, fast, map)
             S == {n \in Nat : from + n <= last => f[from + n] = at[from + n]}
  <1>0. /\ f[from] = pos
        /\ \A seq \in from + 1 .. last : f[seq] = Moved(f[seq - 1], buttons[seq], fast, map)
    BY DEF GoesFrom
  <1>1. at[from] = pos /\ \A seq \in from + 1 .. to : at[seq] = Moved(at[seq - 1], buttons[seq], fast, map)
    BY WalkSteps DEF GoesFrom
  <1> HIDE DEF at
  <1>2. 0 \in S
    BY <1>0, <1>1
  <1>3. ASSUME NEW n \in Nat, n \in S PROVE n + 1 \in S
    <2> SUFFICES ASSUME from + (n + 1) <= last PROVE f[from + (n + 1)] = at[from + (n + 1)]
      OBVIOUS
    <2>1. from + (n + 1) \in from + 1 .. last /\ from + (n + 1) \in from + 1 .. to
      OBVIOUS
    <2>2. from + (n + 1) - 1 = from + n /\ f[from + n] = at[from + n]
      BY <1>3
    <2>. QED BY <1>0, <1>1, <2>1, <2>2
  <1> HIDE DEF S
  <1>4. \A n \in Nat : n \in S
    BY <1>2, <1>3, Induction
  <1>5. ASSUME NEW seq \in from .. last PROVE f[seq] = at[seq]
    <2>1. seq - from \in Nat /\ from + (seq - from) = seq /\ seq <= last
      OBVIOUS
    <2>. QED BY <1>4, <2>1 DEF S
  <1>. QED BY <1>5 DEF at, OnWalk

-----------------------------------------------------------------------------
(* What the client's functions do. *)

\* A sequence has a slot of the ring, in which no valid entry has sequence 0.
LEMMA SlotFacts ==
  /\ \A seq \in Nat : HistorySlot(seq) \in Slots
  /\ \A n \in Nat \ {0} : \A rest : [seq |-> n, buttons |-> rest] # NoEntry
  /\ \A n \in Nat \ {0} : \A rest : [seq |-> n, pos |-> rest] # NoEntry
  <1>1. ASSUME NEW seq \in Nat PROVE HistorySlot(seq) \in Slots
    BY HistoryAssumption DEF HistorySlot, Slots
  <1>2. ASSUME NEW n \in Nat \ {0}, NEW rest
        PROVE  [seq |-> n, buttons |-> rest].seq # NoEntry.seq /\ [seq |-> n, pos |-> rest].seq # NoEntry.seq
    BY DEF NoEntry
  <1>. QED BY <1>1, <1>2

\* An entry that is not empty has a sequence.
LEMMA EntrySeq ==
  ASSUME NEW rest, NEW entry \in {NoEntry} \cup rest, \A e \in rest : e.seq \in Nat \ {0}
  PROVE  /\ entry.seq \in Nat
         /\ entry = NoEntry <=> entry.seq = 0
         /\ entry # NoEntry => entry \in rest
  BY DEF NoEntry

\* A ring of which entries have gone, and no other change.
Thinned(ring, left, rest) ==
  /\ left \in [Slots -> {NoEntry} \cup rest]
  /\ \A i \in Slots : left[i] # NoEntry => left[i] = ring[i]
  /\ (\A i \in Slots : ring[i] = NoEntry) => \A i \in Slots : left[i] = NoEntry

\* Acknowledged entries go, the others stay.
LEMMA AfterSlots ==
  ASSUME NEW rest, NEW ring \in [Slots -> {NoEntry} \cup rest], NEW seq
  PROVE  Thinned(ring, After(ring, seq), rest)
  BY DEF After, Thinned

\* A move ends in a position.
LEMMA MovedType ==
  ASSUME NEW pos \in Positions, NEW buttons, NEW fast \in BOOLEAN, NEW map
  PROVE  Moved(pos, buttons, fast, map) \in Positions
  <1>1. Speed(fast) \in Int /\ MoveX(buttons) \in Int /\ MoveY(buttons) \in Int
    BY SpeedAssumption DEF Speed, MoveX, MoveY, Pressed
  <1>. QED BY <1>1 DEF Moved, StepMovementWithCollision, Positions

\* An input is recorded in its slot, and predicted while the client predicts.
LEMMA LocalApplied ==
  ASSUME Typed, NEW buttons \in Inputs, NEW q,
         q = ApplyLocalInput(prediction, Len(pressed) + 1, buttons, tiles)
  PROVE  LET p   == prediction
             seq == Len(pressed) + 1
             pos == Moved(p.pos, buttons, p.fast, tiles)
         IN  /\ q \in Predictions
             /\ q.phase = p.phase /\ q.authoritative = p.authoritative
             /\ q.catchUp = p.catchUp /\ q.fast = p.fast
             /\ q.recorded = seq
             /\ q.inputs = Store(p.inputs, [seq |-> seq, buttons |-> buttons])
             /\ p.phase # "Active" => q.pos = p.pos /\ q.states = p.states
             /\ p.phase = "Active" => q.pos = pos /\ q.states = Store(p.states, [seq |-> seq, pos |-> pos])
  <1> DEFINE p   == prediction
             seq == Len(pressed) + 1
             pos == Moved(p.pos, buttons, p.fast, tiles)
             recorded == [p EXCEPT !.inputs = Store(@, [seq |-> seq, buttons |-> buttons]), !.recorded = seq]
  <1>1. /\ p \in Predictions /\ seq \in Nat \ {0} /\ ~(p.recorded # 0 /\ seq # p.recorded + 1)
        /\ HistorySlot(seq) \in Slots
    BY SlotFacts DEF Typed
  <1>2. pos \in Positions
    BY <1>1, MovedType DEF Predictions
  <1>3. Store(p.inputs, [seq |-> seq, buttons |-> buttons]) \in [Slots -> {NoEntry} \cup [seq : Nat \ {0}, buttons : Inputs]]
    BY <1>1 DEF Store, Predictions
  <1>4. Store(p.states, [seq |-> seq, pos |-> pos]) \in [Slots -> {NoEntry} \cup [seq : Nat \ {0}, pos : Positions]]
    BY <1>1, <1>2 DEF Store, Predictions
  <1>5. CASE p.phase # "Active"
    <2>1. q = recorded
      BY <1>1, <1>5 DEF ApplyLocalInput
    <2>2. /\ q = [phase |-> p.phase, recorded |-> seq, authoritative |-> p.authoritative,
                   catchUp |-> p.catchUp, pos |-> p.pos, fast |-> p.fast,
                   inputs |-> Store(p.inputs, [seq |-> seq, buttons |-> buttons]),
                   states |-> p.states]
          /\ p.phase \in {"AwaitingBaseline", "Active", "Recovering"}
          /\ p.authoritative \in Nat /\ p.catchUp \in Nat /\ p.pos \in Positions /\ p.fast \in BOOLEAN
          /\ p.states \in [Slots -> {NoEntry} \cup [seq : Nat \ {0}, pos : Positions]]
      BY <1>1, <2>1 DEF Predictions
    <2> HIDE DEF p, seq, pos
    <2>3. q \in Predictions
      BY <1>1, <1>3, <2>2 DEF Predictions
    <2>. QED BY <1>5, <2>2, <2>3 DEF p, seq, pos
  <1>6. CASE p.phase = "Active"
    <2>1. q = [recorded EXCEPT !.pos = pos, !.states = Store(@, [seq |-> seq, pos |-> pos])]
      BY <1>1, <1>6 DEF ApplyLocalInput
    <2>2. /\ q = [phase |-> p.phase, recorded |-> seq, authoritative |-> p.authoritative,
                   catchUp |-> p.catchUp, pos |-> pos, fast |-> p.fast,
                   inputs |-> Store(p.inputs, [seq |-> seq, buttons |-> buttons]),
                   states |-> Store(p.states, [seq |-> seq, pos |-> pos])]
          /\ p.phase \in {"AwaitingBaseline", "Active", "Recovering"}
          /\ p.authoritative \in Nat /\ p.catchUp \in Nat /\ p.fast \in BOOLEAN
      BY <1>1, <2>1 DEF Predictions
    <2> HIDE DEF p, seq, pos
    <2>3. q \in Predictions
      BY <1>1, <1>2, <1>3, <1>4, <2>2 DEF Predictions
    <2>. QED BY <1>6, <2>2, <2>3 DEF p, seq, pos
  <1>. QED BY <1>5, <1>6

\* A walk goes through positions.
LEMMA WalkType ==
  ASSUME NEW pos \in Positions, NEW from \in Nat, NEW to \in Nat, from <= to, NEW buttons,
         NEW fast \in BOOLEAN, NEW map
  PROVE  \A seq \in from .. to : Walk(pos, from, to, buttons, fast, map)[seq] \in Positions
  <1> DEFINE at == Walk(pos, from, to, buttons, fast, map)
             S == {n \in Nat : from + n <= to => at[from + n] \in Positions}
  <1>1. at[from] = pos /\ \A seq \in from + 1 .. to : at[seq] = Moved(at[seq - 1], buttons[seq], fast, map)
    BY WalkSteps DEF GoesFrom
  <1> HIDE DEF at
  <1>2. 0 \in S
    BY <1>1
  <1>3. ASSUME NEW n \in Nat, n \in S PROVE n + 1 \in S
    <2> SUFFICES ASSUME from + (n + 1) <= to PROVE at[from + (n + 1)] \in Positions
      OBVIOUS
    <2>1. from + (n + 1) \in from + 1 .. to /\ from + (n + 1) - 1 = from + n
      OBVIOUS
    <2>2. at[from + n] \in Positions
      BY <1>3
    <2>. QED BY <1>1, <2>1, <2>2, MovedType
  <1> HIDE DEF S
  <1>4. \A n \in Nat : n \in S
    BY <1>2, <1>3, Induction
  <1>5. ASSUME NEW seq \in from .. to PROVE at[seq] \in Positions
    <2>1. seq - from \in Nat /\ from + (seq - from) = seq /\ seq <= to
      OBVIOUS
    <2>. QED BY <1>4, <2>1 DEF S
  <1>. QED BY <1>5 DEF at

\* The replay of a ring that retains the inputs is the walk they were pressed for.
LEMMA ReplayIsWalk ==
  ASSUME NEW p, NEW c \in Corrections, p.recorded \in Nat, c.seq <= p.recorded, NEW map,
         \A seq \in c.seq + 1 .. p.recorded : p.inputs[HistorySlot(seq)].buttons = pressed[seq]
  PROVE  OnWalk(ReplayFrom(p, c, map), p.recorded, c.pos, c.seq, p.recorded, pressed, c.fast, map)
  <1> DEFINE buttons == [seq \in c.seq .. p.recorded |-> p.inputs[HistorySlot(seq)].buttons]
             at == ReplayFrom(p, c, map)
             Replays(g) == g = [seq \in c.seq .. p.recorded |->
                                  IF seq = c.seq THEN c.pos
                                  ELSE Moved(g[seq - 1], p.inputs[HistorySlot(seq)].buttons, c.fast, map)]
  <1>1. c.seq \in Nat
    BY DEF Corrections
  <1>2. PICK g : WalkOf(g, c.pos, c.seq, p.recorded, buttons, c.fast, map)
    BY <1>1, WalkExists
  <1>3. Replays(g)
    BY <1>2 DEF WalkOf
  <1>4. at = CHOOSE h : Replays(h)
    BY Zenon DEF ReplayFrom
  <1>5. Replays(at)
    BY <1>3, <1>4, Zenon
  <1> HIDE DEF at
  <1>6. /\ at[c.seq] = c.pos
        /\ \A seq \in c.seq + 1 .. p.recorded : at[seq] = Moved(at[seq - 1], pressed[seq], c.fast, map)
    <2>1. c.seq \in c.seq .. p.recorded
      BY <1>1
    <2>2. at[c.seq] = c.pos
      BY <1>5, <2>1
    <2>3. ASSUME NEW seq \in c.seq + 1 .. p.recorded
          PROVE  at[seq] = Moved(at[seq - 1], pressed[seq], c.fast, map)
      <3>1. seq \in c.seq .. p.recorded /\ seq # c.seq
        BY <1>1
      <3>. QED BY <1>5, <3>1
    <2>. QED BY <2>2, <2>3
  <1>7. p.recorded \in c.seq .. p.recorded
    BY <1>1
  <1> HIDE DEF Replays, buttons
  <1>8. OnWalk(at, p.recorded, c.pos, c.seq, p.recorded, pressed, c.fast, map)
    <2> DEFINE pos == c.pos
               from == c.seq
               to == p.recorded
               fast == c.fast
    <2>1. /\ from \in Nat /\ to \in Nat /\ from <= to /\ to \in from .. to
          /\ GoesFrom(at, pos, from, to, pressed, fast, map)
      BY <1>1, <1>6, <1>7 DEF GoesFrom
    <2> HIDE DEF pos, from, to, fast
    <2>2. OnWalk(at, to, pos, from, to, pressed, fast, map)
      BY ONLY <2>1, WalkIs
    <2>. QED BY <2>2, Zenon DEF pos, from, to, fast
  <1>. QED BY <1>8, Zenon DEF at

\* What a baseline makes of a client with the history after it.
RebasedTo(p, c, q) ==
  /\ q \in Predictions
  /\ q.recorded = p.recorded /\ q.authoritative = c.seq /\ q.fast = c.fast
  /\ q.catchUp <= q.recorded
  /\ \/ /\ q.phase = "Recovering" /\ q.pos = c.pos
        /\ \A i \in Slots : q.states[i] = NoEntry
     \/ LET path == Walk(c.pos, c.seq, p.recorded, pressed, c.fast, tiles) IN
        /\ q.phase = "Active"
        /\ q.pos = IF p.recorded > c.seq THEN path[p.recorded] ELSE c.pos
        /\ \A i \in Slots : q.states[i] # NoEntry =>
             /\ q.states[i].seq \in c.seq + 1 .. p.recorded
             /\ q.states[i].pos = path[q.states[i].seq]
\* What a correction that is accepted makes of the client.
Corrected(p, c, q) == RebasedTo(p, c, q) /\ q.inputs = After(p.inputs, c.seq)

\* A baseline is replayed, or the client recovers, with the history acknowledged.
LEMMA Rebased ==
  ASSUME NEW p \in Predictions, NEW c \in Corrections, p.authoritative = c.seq,
         p.recorded \in {0, Len(pressed)}, Len(pressed) \in Nat,
         \A i \in Slots : p.inputs[i] # NoEntry =>
           p.inputs[i].buttons = pressed[p.inputs[i].seq],
         NEW q, q = Rebase(p, c, tiles)
  PROVE  RebasedTo(p, c, q) /\ q.inputs = p.inputs
  <1> DEFINE retained == \A seq \in c.seq + 1 .. p.recorded : Retains(p, seq)
             at == ReplayFrom(p, c, tiles)
             path == Walk(c.pos, c.seq, p.recorded, pressed, c.fast, tiles)
             here(i) == {seq \in c.seq + 1 .. p.recorded : HistorySlot(seq) = i}
             kept == [i \in Slots |-> IF here(i) = {} THEN NoEntry
                                      ELSE LET seq == CHOOSE s \in here(i) : TRUE
                                           IN [seq |-> seq, pos |-> at[seq]]]
  <1>1. /\ c.seq \in Nat /\ c.pos \in Positions /\ c.fast \in BOOLEAN
        /\ p.recorded \in Nat /\ p.inputs \in [Slots -> {NoEntry} \cup [seq : Nat \ {0}, buttons : Inputs]]
        /\ p.phase \in {"AwaitingBaseline", "Active", "Recovering"} /\ p.catchUp \in Nat
    BY DEF Corrections, Predictions
  <1>2. CASE ~retained
    <2>1. q = [[[p EXCEPT !.pos = c.pos, !.fast = c.fast]
                  EXCEPT !.phase = "Recovering", !.catchUp = p.recorded, !.states = EmptyRing]
                  EXCEPT !.pos = c.pos]
      BY <1>2 DEF Rebase, EnterRecovery, AtAuthority, Predictions
    <2>2. q = [phase |-> "Recovering", recorded |-> p.recorded, authoritative |-> c.seq,
               catchUp |-> p.recorded, pos |-> c.pos, fast |-> c.fast, inputs |-> p.inputs,
               states |-> EmptyRing]
      BY <2>1 DEF Predictions
    <2>3. EmptyRing \in [Slots -> {NoEntry} \cup [seq : Nat \ {0}, pos : Positions]]
      BY DEF EmptyRing
    <2>4. q \in Predictions
      BY <1>1, <2>2, <2>3 DEF Predictions
    <2>5. \A i \in Slots : q.states[i] = NoEntry
      BY <2>2 DEF EmptyRing
    <2>. QED BY <1>1, <2>2, <2>4, <2>5 DEF RebasedTo
  <1>3. CASE retained
    <2>1. q = [[p EXCEPT !.pos = c.pos, !.fast = c.fast]
                 EXCEPT !.phase = "Active", !.catchUp = 0,
                        !.pos = IF p.recorded > c.seq THEN at[p.recorded] ELSE c.pos,
                        !.states = kept]
      BY <1>3, Zenon DEF Rebase, AtAuthority
    <2>2. \A seq \in c.seq + 1 .. p.recorded : p.inputs[HistorySlot(seq)].buttons = pressed[seq]
      <3> SUFFICES ASSUME NEW seq \in c.seq + 1 .. p.recorded
                   PROVE  p.inputs[HistorySlot(seq)].buttons = pressed[seq]
        OBVIOUS
      <3>1. p.inputs[HistorySlot(seq)].seq = seq /\ seq \in Nat \ {0}
        BY <1>1, <1>3 DEF Retains
      <3>2. HistorySlot(seq) \in Slots /\ p.inputs[HistorySlot(seq)] # NoEntry
        BY <3>1, SlotFacts DEF NoEntry
      <3>. QED BY <3>1, <3>2
    <2>3. c.seq <= p.recorded => \A seq \in c.seq .. p.recorded : at[seq] = path[seq] /\ path[seq] \in Positions
      <3> SUFFICES ASSUME c.seq <= p.recorded
                   PROVE  \A seq \in c.seq .. p.recorded : at[seq] = path[seq] /\ path[seq] \in Positions
        OBVIOUS
      <3>1. \A seq \in c.seq .. p.recorded : at[seq] = path[seq]
        <4>1. p.recorded \in Nat
          BY <1>1
        <4> HIDE DEF at, path, kept, retained, here
        <4>2. OnWalk(ReplayFrom(p, c, tiles), p.recorded, c.pos, c.seq, p.recorded, pressed,
                     c.fast, tiles)
          BY ONLY <2>2, <4>1, c \in Corrections, c.seq <= p.recorded, ReplayIsWalk, Zenon
        <4>. QED BY <4>2, Zenon DEF OnWalk, at, path
      <3>2. \A seq \in c.seq .. p.recorded : path[seq] \in Positions
        BY <1>1, WalkType, Zenon
      <3>. QED BY <3>1, <3>2
    <2> HIDE DEF at, path
    <2>4. ASSUME NEW i \in Slots
          PROVE  \/ kept[i] = NoEntry
                 \/ /\ kept[i] \in [seq : Nat \ {0}, pos : Positions]
                    /\ kept[i].seq \in c.seq + 1 .. p.recorded
                    /\ kept[i].pos = path[kept[i].seq]
      <3>1. CASE here(i) = {}
        BY <3>1
      <3>2. CASE here(i) # {}
        <4> DEFINE s == CHOOSE s \in here(i) : TRUE
        <4>1. s \in here(i)
          BY <3>2
        <4>2. kept[i] = [seq |-> s, pos |-> at[s]]
          BY <3>2
        <4>3. s \in c.seq + 1 .. p.recorded
          BY <4>1
        <4> HIDE DEF s, kept
        <4>4. s \in Nat \ {0} /\ c.seq <= p.recorded /\ s \in c.seq .. p.recorded
          BY <1>1, <4>3
        <4>5. at[s] = path[s] /\ path[s] \in Positions
          BY <2>3, <4>4
        <4>. QED BY <4>2, <4>3, <4>4, <4>5
      <3>. QED BY <3>1, <3>2
    <2>5. kept \in [Slots -> {NoEntry} \cup [seq : Nat \ {0}, pos : Positions]]
      <3>1. kept = [i \in Slots |-> kept[i]]
        OBVIOUS
      <3> HIDE DEF kept
      <3>. QED BY <2>4, <3>1
    <2> DEFINE pos == IF p.recorded > c.seq THEN path[p.recorded] ELSE c.pos
    <2>6. (IF p.recorded > c.seq THEN at[p.recorded] ELSE c.pos) = pos /\ pos \in Positions
      <3>1. p.recorded > c.seq => c.seq <= p.recorded /\ p.recorded \in c.seq .. p.recorded
        BY <1>1
      <3>. QED BY <1>1, <2>3, <3>1
    <2> HIDE DEF kept
    <2>7. q = [phase |-> "Active", recorded |-> p.recorded, authoritative |-> c.seq,
               catchUp |-> 0, pos |-> pos, fast |-> c.fast, inputs |-> p.inputs, states |-> kept]
      BY <2>1, <2>6 DEF Predictions
    <2> HIDE DEF pos
    <2>8. q \in Predictions
      BY <1>1, <2>5, <2>6, <2>7 DEF Predictions
    <2>9. \A i \in Slots : q.states[i] # NoEntry =>
            q.states[i].seq \in c.seq + 1 .. p.recorded /\ q.states[i].pos = path[q.states[i].seq]
      BY <2>4, <2>7
    <2>. QED BY <1>1, <2>7, <2>8, <2>9 DEF pos, path, RebasedTo
  <1>. QED BY <1>2, <1>3

\* A correction that is not stale is accepted.
LEMMA CorrectionAccepted ==
  ASSUME Typed, RingsInv, NEW c \in Corrections, ~Stale(prediction, c),
         NEW q, q = ReconcileAndReplay(prediction, c, tiles)
  PROVE  Corrected(prediction, c, q)
  <1> DEFINE p == prediction
             acked == [p EXCEPT !.authoritative = c.seq, !.inputs = After(@, c.seq),
                                !.states = After(@, c.seq)]
  <1>1. /\ p \in Predictions /\ p.recorded \in {0, Len(pressed)} /\ Len(pressed) \in Nat
        /\ p.catchUp <= p.recorded
        /\ c.seq \in Nat /\ c.pos \in Positions /\ c.fast \in BOOLEAN
    BY DEF Typed, Corrections
  <1>2. /\ p.phase \in {"AwaitingBaseline", "Active", "Recovering"} /\ p.recorded \in Nat
        /\ p.catchUp \in Nat /\ p.pos \in Positions /\ p.fast \in BOOLEAN
        /\ p.inputs \in [Slots -> {NoEntry} \cup [seq : Nat \ {0}, buttons : Inputs]]
        /\ p.states \in [Slots -> {NoEntry} \cup [seq : Nat \ {0}, pos : Positions]]
    BY <1>1 DEF Predictions
  <1>3. /\ After(p.inputs, c.seq) \in [Slots -> {NoEntry} \cup [seq : Nat \ {0}, buttons : Inputs]]
        /\ \A i \in Slots : After(p.inputs, c.seq)[i] # NoEntry => After(p.inputs, c.seq)[i] = p.inputs[i]
    <2>1. Thinned(p.inputs, After(p.inputs, c.seq), [seq : Nat \ {0}, buttons : Inputs])
      BY ONLY <1>2, AfterSlots, Zenon
    <2>. QED BY <2>1, Zenon DEF Thinned
  <1>4. /\ After(p.states, c.seq) \in [Slots -> {NoEntry} \cup [seq : Nat \ {0}, pos : Positions]]
        /\ (\A i \in Slots : p.states[i] = NoEntry) => \A i \in Slots : After(p.states, c.seq)[i] = NoEntry
    <2>1. Thinned(p.states, After(p.states, c.seq), [seq : Nat \ {0}, pos : Positions])
      BY ONLY <1>2, AfterSlots, Zenon
    <2>. QED BY <2>1, Zenon DEF Thinned
  <1>5. acked = [phase |-> p.phase, recorded |-> p.recorded, authoritative |-> c.seq,
                 catchUp |-> p.catchUp, pos |-> p.pos, fast |-> p.fast,
                 inputs |-> After(p.inputs, c.seq), states |-> After(p.states, c.seq)]
    <2> SUFFICES ASSUME NEW x, x = acked
                 PROVE  x = [phase |-> p.phase, recorded |-> p.recorded, authoritative |-> c.seq,
                             catchUp |-> p.catchUp, pos |-> p.pos, fast |-> p.fast,
                             inputs |-> After(p.inputs, c.seq), states |-> After(p.states, c.seq)]
      OBVIOUS
    <2> HIDE DEF p
    <2>. QED BY <1>1 DEF Predictions
  <1>6. \A i \in Slots : p.states[i] # NoEntry => p.phase = "Active"
    BY DEF RingsInv
  <1>7. \A i \in Slots : p.inputs[i] # NoEntry => p.inputs[i].buttons = pressed[p.inputs[i].seq]
    BY DEF RingsInv
  <1>8. CASE p.phase = "Recovering" /\ c.seq < p.catchUp
    <2>1. q = AtAuthority(acked, c)
      BY <1>8 DEF ReconcileAndReplay
    <2> HIDE DEF p, acked
    <2>2. q = [phase |-> "Recovering", recorded |-> p.recorded, authoritative |-> c.seq,
               catchUp |-> p.catchUp, pos |-> c.pos, fast |-> c.fast,
               inputs |-> After(p.inputs, c.seq), states |-> After(p.states, c.seq)]
      BY <1>5, <1>8, <2>1 DEF AtAuthority
    <2>3. q \in Predictions
      BY <1>1, <1>2, <1>3, <1>4, <2>2 DEF Predictions
    <2>4. \A i \in Slots : q.states[i] = NoEntry
      <3>1. \A i \in Slots : p.states[i] = NoEntry
        BY <1>6, <1>8
      <3>. QED BY <1>4, <2>2, <3>1
    <2>5. Corrected(p, c, q)
      BY <1>1, <2>2, <2>3, <2>4 DEF Corrected, RebasedTo
    <2>. QED BY <2>5 DEF p
  <1>9. CASE ~(p.phase = "Recovering" /\ c.seq < p.catchUp)
    <2>1. q = Rebase(acked, c, tiles)
      BY <1>9 DEF ReconcileAndReplay
    <2> HIDE DEF p, acked
    <2>2. acked \in Predictions
      BY <1>1, <1>2, <1>3, <1>4, <1>5 DEF Predictions
    <2>3. /\ acked.authoritative = c.seq /\ acked.recorded = p.recorded
          /\ acked.inputs = After(p.inputs, c.seq)
      BY <1>5
    <2>4. \A i \in Slots : acked.inputs[i] # NoEntry =>
            acked.inputs[i].buttons = pressed[acked.inputs[i].seq]
      BY <1>3, <1>7, <2>3
    <2>5. RebasedTo(acked, c, q) /\ q.inputs = acked.inputs
      <3>1. acked.recorded \in {0, Len(pressed)}
        BY <1>1, <2>3
      <3>2. Len(pressed) \in Nat
        BY <1>1
      <3>. QED BY ONLY <2>1, <2>2, <2>3, <2>4, <3>1, <3>2, c \in Corrections, Rebased, Zenon
    <2>6. Corrected(p, c, q)
      BY <2>3, <2>5 DEF Corrected, RebasedTo
    <2>. QED BY <2>6 DEF p
  <1>. QED BY <1>8, <1>9

-----------------------------------------------------------------------------
(* What the client does. *)

\* The baseline comes before what has been pressed.
LEMMA PredictedAfterType ==
  ASSUME Typed, BaselineInv, prediction.phase # "AwaitingBaseline"
  PROVE  PredictedAfter \in Nat /\ PredictedAfter <= Len(pressed) /\ Len(pressed) \in Nat
  <1>1. baseline \in Baselines /\ Len(pressed) \in Nat
    BY DEF Typed, BaselineInv
  <1>2. baseline.sent \in Nat /\ baseline.recorded \in Nat /\ baseline.correction.seq \in Nat
    BY <1>1 DEF Baselines, Corrections
  <1>. QED BY <1>1, <1>2 DEF PredictedAfter, BaselineInv

\* One more input leads one step on.
LEMMA WalkGrows ==
  ASSUME NEW pos, NEW from \in Nat, NEW s \in Seq(Inputs), from <= Len(s), NEW b \in Inputs,
         NEW fast, NEW map
  PROVE  LET old == Walk(pos, from, Len(s), s, fast, map)
             new == Walk(pos, from, Len(s) + 1, Append(s, b), fast, map)
         IN  /\ \A seq \in from .. Len(s) : new[seq] = old[seq]
             /\ new[Len(s) + 1] = Moved(old[Len(s)], b, fast, map)
  <1> DEFINE n == Len(s)
             m == n + 1
             t == Append(s, b)
             old == Walk(pos, from, n, s, fast, map)
             new == Walk(pos, from, m, t, fast, map)
  <1>1. /\ n \in Nat /\ m \in Nat /\ from <= n /\ from <= m /\ n \in from .. m
        /\ \A seq \in from + 1 .. n : t[seq] = s[seq]
        /\ m \in from + 1 .. m /\ t[m] = b
    OBVIOUS
  <1> HIDE DEF n, m, t
  <1>2. /\ GoesFrom(old, pos, from, n, s, fast, map)
        /\ GoesFrom(new, pos, from, m, t, fast, map)
    BY <1>1, WalkSteps, Zenon
  <1> HIDE DEF old
  <1>3. GoesFrom(old, pos, from, n, t, fast, map)
    BY <1>1, <1>2 DEF GoesFrom
  <1>4. \A seq \in from .. n : old[seq] = new[seq]
    <2>1. m \in Nat /\ from <= m /\ n \in from .. m
      BY <1>1
    <2>2. OnWalk(old, n, pos, from, m, t, fast, map)
      BY ONLY from \in Nat, <1>3, <2>1, WalkIs
    <2>. QED BY <2>2, Zenon DEF OnWalk, new
  <1> HIDE DEF new
  <1>5. new[m] = Moved(old[n], b, fast, map)
    <2>1. m - 1 = n /\ n \in from .. n
      BY <1>1 DEF m
    <2>2. new[m] = Moved(new[m - 1], t[m], fast, map)
      BY <1>1, <1>2 DEF GoesFrom
    <2>. QED BY <1>1, <1>4, <2>1, <2>2
  <1>. QED BY <1>4, <1>5 DEF old, new, n, m, t

\* An input keeps the invariant.
LEMMA LocalInputKeeps == ASSUME PredictionInv, LocalInput PROVE PredictionInv'
  <1> DEFINE n == Len(pressed)
             p == prediction
  <1>1. PICK b \in Inputs : pressed' = Append(pressed, b) /\ prediction' = ApplyLocalInput(prediction, n + 1, b, tiles)
    BY DEF LocalInput
  <1>2. /\ n + 1 <= MaxSeq /\ pressed \in Seq(Inputs) /\ n \in Nat
        /\ UNCHANGED <<tiles, serverTiles, serverPos, served, latestCorrection, baseline, boosted,
                       lastApplied, round>>
    BY DEF LocalInput, PredictionInv, Typed, serverVars, linkVars
  <1>3. /\ pressed' \in Seq(Inputs) /\ Len(pressed') = n + 1 /\ pressed'[n + 1] = b
        /\ \A seq \in 1 .. n : pressed'[seq] = pressed[seq]
    BY <1>1, <1>2
  <1> DEFINE pos == Moved(p.pos, b, p.fast, tiles)
             q == prediction'
  <1>4. /\ q \in Predictions
        /\ q.phase = p.phase /\ q.authoritative = p.authoritative
        /\ q.catchUp = p.catchUp /\ q.fast = p.fast
        /\ q.recorded = n + 1
        /\ q.inputs = Store(p.inputs, [seq |-> n + 1, buttons |-> b])
        /\ p.phase # "Active" => q.pos = p.pos /\ q.states = p.states
        /\ p.phase = "Active" => q.pos = pos /\ q.states = Store(p.states, [seq |-> n + 1, pos |-> pos])
    BY <1>1, LocalApplied DEF PredictionInv
  <1>5. /\ p \in Predictions /\ p.recorded \in {0, n} /\ p.catchUp \in Nat /\ p.recorded \in Nat
        /\ p.catchUp <= p.recorded /\ p.authoritative <= LastProcessed
        /\ p.inputs \in [Slots -> {NoEntry} \cup [seq : Nat \ {0}, buttons : Inputs]]
        /\ p.states \in [Slots -> {NoEntry} \cup [seq : Nat \ {0}, pos : Positions]]
        /\ HistorySlot(n + 1) \in Slots
    BY <1>2, SlotFacts DEF PredictionInv, Typed, Predictions
  <1> HIDE DEF p, q, n, pos
  <1>6. Typed'
    BY <1>2, <1>3, <1>4, <1>5 DEF PredictionInv, Typed, LastProcessed, q, p
  <1>7. RingsInv'
    <2>1. ASSUME NEW i \in Slots, q.inputs[i] # NoEntry
          PROVE  /\ q.inputs[i].seq <= n + 1 /\ HistorySlot(q.inputs[i].seq) = i
                 /\ q.inputs[i].buttons = pressed'[q.inputs[i].seq]
      <3>1. CASE i = HistorySlot(n + 1)
        <4>1. q.inputs[i] = [seq |-> n + 1, buttons |-> b]
          BY <1>4, <1>5, <3>1 DEF Store
        <4>. QED BY <1>2, <1>3, <3>1, <4>1 DEF n
      <3>2. CASE i # HistorySlot(n + 1)
        <4>1. q.inputs[i] = p.inputs[i]
          BY <1>4, <1>5, <3>2 DEF Store
        <4>2. /\ p.inputs[i].seq <= p.recorded /\ HistorySlot(p.inputs[i].seq) = i
              /\ p.inputs[i].buttons = pressed[p.inputs[i].seq]
          BY <2>1, <4>1 DEF PredictionInv, RingsInv, p
        <4>3. p.inputs[i].seq \in Nat \ {0}
          BY <1>5, <2>1, <4>1
        <4>4. p.inputs[i].seq \in 1 .. n /\ p.inputs[i].seq <= n + 1
          BY <1>2, <1>5, <4>2, <4>3 DEF n
        <4>. QED BY <1>3, <4>1, <4>2, <4>4
      <3>. QED BY <3>1, <3>2
    <2>2. ASSUME NEW i \in Slots, q.states[i] # NoEntry
          PROVE  q.phase = "Active" /\ q.states[i].seq <= n + 1
      <3>1. CASE p.phase = "Active"
        <4>1. CASE i = HistorySlot(n + 1)
          BY <1>2, <1>4, <1>5, <3>1, <4>1 DEF Store, n
        <4>2. CASE i # HistorySlot(n + 1)
          <5>1. q.states[i] = p.states[i]
            BY <1>4, <1>5, <3>1, <4>2 DEF Store
          <5>2. p.states[i].seq <= p.recorded /\ p.states[i].seq \in Nat
            BY <1>5, <2>2, <5>1 DEF PredictionInv, RingsInv, p
          <5>. QED BY <1>2, <1>4, <1>5, <3>1, <5>1, <5>2 DEF n
        <4>. QED BY <4>1, <4>2
      <3>2. CASE p.phase # "Active"
        BY <1>4, <2>2, <3>2 DEF PredictionInv, RingsInv, p
      <3>. QED BY <3>1, <3>2
    <2>. QED BY <1>4, <2>1, <2>2 DEF RingsInv, q
  <1>8. ServerInv'
    BY <1>2 DEF PredictionInv, ServerInv, Authority, PosAt, LastProcessed
  <1>9. BaselineInv'
    BY <1>2, <1>3, <1>4, <1>6
    DEF PredictionInv, BaselineInv, Authority, PosAt, LastProcessed, p, q, n, Typed, Baselines
  <1>10. ReplayInv'
    <2> SUFFICES ASSUME p.phase = "Active", baseline.map = tiles
                 PROVE  /\ q.pos = Path'[n + 1]
                        /\ \A i \in Slots : q.states[i] # NoEntry =>
                             q.states[i].seq > PredictedAfter /\ q.states[i].pos = Path'[q.states[i].seq]
      BY <1>2, <1>3, <1>4 DEF ReplayInv, q, PredictedAfter
    <2>1. PredictedAfter \in Nat /\ PredictedAfter <= n /\ PredictedAfter' = PredictedAfter
      BY <1>2, PredictedAfterType DEF PredictionInv, p, n, PredictedAfter
    <2> DEFINE c == baseline.correction
               old == Walk(c.pos, PredictedAfter, n, pressed, c.fast, tiles)
               new == Walk(c.pos, PredictedAfter, n + 1, Append(pressed, b), c.fast, tiles)
    <2>2. Path = old /\ Path' = new
      BY <1>1, <1>2, <1>3, <2>1 DEF Path, n
    <2>3. /\ \A seq \in PredictedAfter .. n : new[seq] = old[seq]
          /\ new[n + 1] = Moved(old[n], b, c.fast, tiles)
      BY <1>2, <2>1, WalkGrows DEF n
    <2> HIDE DEF old, new
    <2>4. p.pos = old[n] /\ p.fast = c.fast
      BY <2>2 DEF PredictionInv, ReplayInv, BaselineInv, p, n
    <2>5. q.pos = new[n + 1]
      BY <1>4, <2>3, <2>4 DEF pos
    <2>6. ASSUME NEW i \in Slots, q.states[i] # NoEntry
          PROVE  q.states[i].seq > PredictedAfter /\ q.states[i].pos = new[q.states[i].seq]
      <3>1. CASE i = HistorySlot(n + 1)
        <4>1. q.states[i] = [seq |-> n + 1, pos |-> pos]
          BY <1>4, <1>5, <3>1 DEF Store
        <4>. QED BY <1>2, <1>4, <2>1, <2>5, <4>1 DEF n
      <3>2. CASE i # HistorySlot(n + 1)
        <4>1. q.states[i] = p.states[i]
          BY <1>4, <1>5, <3>2 DEF Store
        <4>2. /\ p.states[i].seq > PredictedAfter /\ p.states[i].pos = old[p.states[i].seq]
              /\ p.states[i].seq <= p.recorded
          BY <2>2, <2>6, <4>1 DEF PredictionInv, ReplayInv, RingsInv, p
        <4>3. p.states[i].seq \in Nat \ {0}
          BY <1>5, <2>6, <4>1
        <4>4. p.states[i].seq \in PredictedAfter .. n
          BY <1>2, <1>5, <2>1, <4>2, <4>3 DEF n
        <4>. QED BY <2>3, <4>1, <4>2, <4>4
      <3>. QED BY <3>1, <3>2
    <2>. QED BY <2>2, <2>5, <2>6
  <1>. QED BY <1>6, <1>7, <1>8, <1>9, <1>10 DEF PredictionInv

\* No correction is no correction.
LEMMA NoneApart == None \notin Corrections /\ None \notin Baselines
  <1>1. DOMAIN None = {"none"}
    BY DEF None
  <1>2. ASSUME NEW c \in Corrections PROVE DOMAIN c = {"seq", "pos", "fast", "round"}
    BY DEF Corrections
  <1>3. ASSUME NEW b \in Baselines PROVE DOMAIN b = {"correction", "map", "recorded", "sent"}
    BY DEF Baselines
  <1>4. "seq" \in {"seq", "pos", "fast", "round"} /\ "seq" \notin {"none"}
        /\ "map" \in {"correction", "map", "recorded", "sent"} /\ "map" \notin {"none"}
    OBVIOUS
  <1>. QED BY <1>1, <1>2, <1>3, <1>4

\* A correction keeps the invariant, stale or not.
LEMMA CorrectionKeeps == ASSUME PredictionInv, ApplyCorrection PROVE PredictionInv'
  <1> DEFINE n == Len(pressed)
             p == prediction
             q == prediction'
             c == latestCorrection
  <1>1. /\ c \in Corrections /\ Authority(c) /\ latestCorrection' = None
        /\ q = ReconcileAndReplay(p, c, tiles)
        /\ UNCHANGED <<tiles, serverTiles, serverPos, served, pressed, boosted, lastApplied, round>>
        /\ n \in Nat /\ c.seq \in Nat
    BY DEF ApplyCorrection, PredictionInv, Typed, ServerInv, serverVars, Corrections
  <1>2. ServerInv'
    BY <1>1 DEF PredictionInv, ServerInv, PosAt, LastProcessed
  <1>3. CASE Stale(p, c)
    <2>1. q = p /\ baseline' = baseline
      <3>1. q = p
        BY <1>1, <1>3, Zenon DEF ReconcileAndReplay
      <3>. QED BY <1>3, <3>1, Zenon DEF ApplyCorrection
    <2>2. Typed' /\ RingsInv' /\ BaselineInv'
      BY <1>1, <2>1
      DEF PredictionInv, Typed, RingsInv, BaselineInv, Authority, PosAt, LastProcessed
    <2>3. ReplayInv'
      BY <1>1, <2>1 DEF PredictionInv, ReplayInv, Path, PredictedAfter
    <2>. QED BY <1>2, <2>2, <2>3 DEF PredictionInv
  <1>4. CASE ~Stale(p, c)
    <2> DEFINE b == baseline'
    <2>1. b = [correction |-> c, map |-> tiles, recorded |-> p.recorded, sent |-> n]
      BY <1>4 DEF ApplyCorrection
    <2>2. RebasedTo(p, c, q) /\ q.inputs = After(p.inputs, c.seq)
      <3>1. Typed /\ RingsInv
        BY DEF PredictionInv
      <3>. QED BY <1>1, <1>4, <3>1, CorrectionAccepted, Zenon DEF Corrected
    <2>3. /\ p \in Predictions /\ p.recorded \in {0, n} /\ p.recorded \in Nat
          /\ p.inputs \in [Slots -> {NoEntry} \cup [seq : Nat \ {0}, buttons : Inputs]]
          /\ tiles \in {StartTiles, OpenTiles}
      BY DEF PredictionInv, Typed, Predictions
    <2>4. b \in Baselines /\ b # None
      <3>1. b \in Baselines
        BY <1>1, <2>1, <2>3 DEF Baselines
      <3>. QED BY <3>1, NoneApart
    <2>5. /\ q \in Predictions /\ q.recorded = p.recorded /\ q.authoritative = c.seq
          /\ q.fast = c.fast /\ q.catchUp <= q.recorded
          /\ q.phase \in {"Active", "Recovering"} /\ q.phase = "Recovering" => q.pos = c.pos
      BY <2>2 DEF RebasedTo
    <2>6. c.seq <= LastProcessed
      BY <1>1 DEF Authority
    <2>7. Typed'
      BY <1>1, <2>3, <2>4, <2>5, <2>6 DEF PredictionInv, Typed, LastProcessed
    <2>8. RingsInv'
      <3>1. ASSUME NEW i \in Slots, q.inputs[i] # NoEntry
            PROVE  /\ q.inputs[i].seq <= q.recorded /\ HistorySlot(q.inputs[i].seq) = i
                   /\ q.inputs[i].buttons = pressed[q.inputs[i].seq]
        <4>1. q.inputs[i] = p.inputs[i]
          BY <2>2, <2>3, <3>1 DEF After
        <4>. QED BY <2>5, <3>1, <4>1 DEF PredictionInv, RingsInv
      <3>2. ASSUME NEW i \in Slots, q.states[i] # NoEntry
            PROVE  q.phase = "Active" /\ q.states[i].seq <= q.recorded
        BY <1>1, <2>2, <2>3, <3>2 DEF RebasedTo
      <3>. QED BY <1>1, <3>1, <3>2 DEF RingsInv
    <2>9. BaselineInv'
      <3>1. /\ c.seq <= Len(served') /\ (c.fast => boosted')
            /\ c.pos = IF c.seq = 0 THEN CentreOf(SpawnCell) ELSE served'[c.seq].pos
        BY <1>1 DEF Authority, PosAt, LastProcessed
      <3>2. b.correction = c /\ b.map = tiles /\ b.recorded = p.recorded /\ b.sent = n
        BY <2>1
      <3>3. Authority(baseline.correction)'
        BY <3>1, <3>2 DEF Authority, PosAt, LastProcessed
      <3>. QED BY <1>1, <2>3, <2>4, <2>5, <3>2, <3>3 DEF BaselineInv
    <2>10. ReplayInv'
      <3> SUFFICES ASSUME q.phase = "Active"
                   PROVE  /\ q.pos = Path'[n]
                          /\ \A i \in Slots : q.states[i] # NoEntry =>
                               q.states[i].seq > PredictedAfter' /\ q.states[i].pos = Path'[q.states[i].seq]
        BY <1>1 DEF ReplayInv
      <3> DEFINE path == Walk(c.pos, c.seq, p.recorded, pressed, c.fast, tiles)
      <3>1. /\ q.pos = IF p.recorded > c.seq THEN path[p.recorded] ELSE c.pos
            /\ \A i \in Slots : q.states[i] # NoEntry =>
                 /\ q.states[i].seq \in c.seq + 1 .. p.recorded
                 /\ q.states[i].pos = path[q.states[i].seq]
        BY <2>2 DEF RebasedTo
      <3> HIDE DEF path
      <3>2. Path' = Walk(c.pos, PredictedAfter', n, pressed, c.fast, tiles)
        BY <1>1, <2>1 DEF Path
      <3>3. CASE p.recorded = n /\ c.seq <= n /\ n # 0
        <4>1. PredictedAfter' = c.seq
          BY <1>1, <2>1, <3>3 DEF PredictedAfter
        <4>2. Path' = path
          BY <3>2, <3>3, <4>1 DEF path
        <4>3. path[c.seq] = c.pos
          <5>1. GoesFrom(path, c.pos, c.seq, p.recorded, pressed, c.fast, tiles)
            BY ONLY <1>1, <2>3, <3>3, WalkSteps DEF path
          <5>. QED BY <5>1 DEF GoesFrom
        <4>. QED BY <1>1, <2>3, <3>1, <3>3, <4>1, <4>2, <4>3
      <3>4. CASE ~(p.recorded = n /\ c.seq <= n /\ n # 0)
        <4>1. PredictedAfter' = n /\ ~(p.recorded > c.seq)
          BY <1>1, <2>1, <2>3, <3>4 DEF PredictedAfter
        <4>2. Path'[n] = c.pos
          <5>1. GoesFrom(Path', c.pos, n, n, pressed, c.fast, tiles)
            BY ONLY <1>1, <3>2, <4>1, WalkSteps
          <5>. QED BY <5>1 DEF GoesFrom
        <4>. QED BY <1>1, <2>3, <3>1, <4>1, <4>2
      <3>. QED BY <3>3, <3>4
    <2>. QED BY <1>2, <2>7, <2>8, <2>9, <2>10 DEF PredictionInv
  <1>. QED BY <1>3, <1>4

\* A suspended client has forgotten everything.
LEMMA SuspendedKeeps ==
  ASSUME Typed', ServerInv', prediction' = Suspended
  PROVE  PredictionInv'
  <1>1. RingsInv'
    BY DEF RingsInv, Suspended, EmptyRing
  <1>2. BaselineInv' /\ ReplayInv'
    BY DEF BaselineInv, ReplayInv, Suspended
  <1>. QED BY <1>1, <1>2 DEF PredictionInv

\* So does a suspension keep the types.
LEMMA SuspendedType == Suspended \in Predictions
  BY DEF Suspended, Predictions, EmptyRing, Positions

\* A scene that suspends prediction or learns of an explosion keeps the invariant.
LEMMA SceneKeeps ==
  ASSUME PredictionInv, prediction' \in {prediction, Suspended},
         tiles' \in {tiles, serverTiles},
         UNCHANGED <<serverVars, pressed, latestCorrection, baseline>>
  PROVE  PredictionInv'
  <1>1. /\ UNCHANGED <<round, serverTiles, serverPos, boosted, lastApplied, served, pressed,
                       latestCorrection, baseline>>
        /\ tiles' \in {StartTiles, serverTiles}
    BY DEF serverVars, PredictionInv, ServerInv
  <1>2. ServerInv'
    BY <1>1 DEF PredictionInv, ServerInv, Authority, PosAt, LastProcessed
  <1>3. Typed'
    <2>1. prediction' = Suspended => Typed'
      <3>1. /\ Suspended.recorded = 0 /\ Suspended.authoritative = 0 /\ Suspended.catchUp = 0
            /\ Len(served) \in Nat
        BY DEF Suspended, PredictionInv, Typed
      <3>. QED BY <1>1, <3>1, SuspendedType DEF PredictionInv, Typed, LastProcessed
    <2>2. prediction' = prediction => Typed'
      BY <1>1 DEF PredictionInv, Typed, LastProcessed
    <2>. QED BY <2>1, <2>2
  <1>4. CASE prediction' = Suspended
    BY <1>2, <1>3, <1>4, SuspendedKeeps
  <1>5. CASE prediction' = prediction
    <2>1. RingsInv'
      BY <1>1, <1>5 DEF PredictionInv, RingsInv
    <2>2. prediction.phase # "AwaitingBaseline" => baseline.map \in {StartTiles, tiles'}
      BY <1>1 DEF PredictionInv, BaselineInv, ServerInv
    <2>3. BaselineInv'
      BY <1>1, <1>5, <2>2 DEF PredictionInv, BaselineInv, Authority, PosAt, LastProcessed
    <2>4. ReplayInv'
      <3>1. CASE tiles' = tiles
        BY <1>1, <1>5, <3>1 DEF PredictionInv, ReplayInv, Path, PredictedAfter
      <3>2. CASE tiles' # tiles
        <4>1. tiles = StartTiles /\ tiles' # StartTiles
          BY <3>2 DEF PredictionInv, ServerInv
        <4>2. prediction.phase = "Active" => baseline.map = StartTiles
          BY <4>1 DEF PredictionInv, BaselineInv
        <4>. QED BY <1>1, <1>5, <4>1, <4>2 DEF ReplayInv
      <3>. QED BY <3>1, <3>2
    <2>. QED BY <1>2, <1>3, <2>1, <2>3, <2>4 DEF PredictionInv
  <1>. QED BY <1>4, <1>5

-----------------------------------------------------------------------------
(* What the server does. *)

\* What the server adds to what it has made of the inputs.
LEMMA ConsumedType ==
  ASSUME Typed, NEW b \in Inputs, Consume(b)
  PROVE  /\ serverPos' \in Positions /\ lastApplied' \in Inputs
         /\ served' \in Seq([buttons : Inputs, pos : Positions])
         /\ Len(served') = Len(served) + 1 /\ Len(served) \in Nat
         /\ \A n \in 1 .. Len(served) : served'[n] = served[n]
         /\ served'[Len(served) + 1] = [buttons |-> b, pos |-> serverPos']
  <1>1. /\ served \in Seq([buttons : Inputs, pos : Positions]) /\ serverPos \in Positions
        /\ boosted \in BOOLEAN
        /\ served' = Append(served, [buttons |-> b, pos |-> serverPos'])
        /\ serverPos' = Moved(serverPos, b, boosted, serverTiles) /\ lastApplied' = b
    BY DEF Typed, Consume
  <1>2. serverPos' \in Positions
    BY <1>1, MovedType
  <1>3. [buttons |-> b, pos |-> serverPos'] \in [buttons : Inputs, pos : Positions]
    BY <1>2
  <1>. QED BY <1>1, <1>2, <1>3

\* A tick keeps the invariant, and what it sends is what it has just done.
LEMMA ServerTickKeeps == ASSUME PredictionInv, ServerTick PROVE PredictionInv'
  <1> DEFINE m == Len(served)
  <1>1. /\ UNCHANGED <<prediction, tiles, pressed, serverTiles, boosted, baseline>>
        /\ Typed /\ m \in Nat /\ boosted \in BOOLEAN
        /\ latestCorrection' \in
             {latestCorrection, [seq |-> Len(served'), pos |-> serverPos', fast |-> boosted, round |-> round']}
        /\ Len(pressed) \in Nat /\ Len(pressed) <= MaxSeq /\ MaxSeq \in Nat
        /\ round \in Rounds /\ served \in Seq([buttons : Inputs, pos : Positions])
    BY InputAssumption DEF ServerTick, Send, sceneVars, PredictionInv, Typed
  <1>2. /\ serverPos' \in Positions /\ lastApplied' \in Inputs /\ round' \in Rounds
        /\ served' \in Seq([buttons : Inputs, pos : Positions]) /\ Len(served') <= MaxSeq + 1
        /\ \/ UNCHANGED <<served, serverPos>>
           \/ /\ Len(served') = m + 1
              /\ served'[m + 1].pos = serverPos'
              /\ serverPos' = Moved(serverPos, served'[m + 1].buttons, boosted, serverTiles)
        /\ \A n \in 1 .. m : served'[n] = served[n]
    <2>1. CASE TickIdle
      BY <1>1, <2>1 DEF TickIdle, Typed, Rounds
    <2>2. CASE TickExact
      <3>1. /\ pressed[m + 1] \in Inputs /\ Consume(pressed[m + 1]) /\ round' = round
            /\ m + 1 <= MaxSeq + 1
        BY <1>1, <2>2 DEF TickExact, LastProcessed, Typed
      <3>. QED BY <1>1, <3>1, ConsumedType DEF Consume
    <2>3. CASE TickGap
      <3>1. lastApplied \in Inputs /\ Consume(lastApplied) /\ round' = round /\ m + 1 <= MaxSeq + 1
        BY <1>1, <2>3 DEF TickGap, MayConsume, LastProcessed, Typed
      <3>. QED BY <1>1, <3>1, ConsumedType DEF Consume
    <2>. QED BY <2>1, <2>2, <2>3 DEF ServerTick
  <1>3. Len(served') \in Nat /\ m <= Len(served')
    BY <1>1, <1>2
  <1>4. ASSUME NEW n \in 0 .. m PROVE PosAt(n)' = PosAt(n)
    BY <1>1, <1>2 DEF PosAt
  <1>5. ASSUME NEW c \in Corrections, Authority(c)
        PROVE  c.seq <= Len(served') /\ c.pos = PosAt(c.seq)' /\ (c.fast => boosted')
    <2>1. c.seq \in 0 .. m /\ c.pos = PosAt(c.seq) /\ (c.fast => boosted)
      BY <1>1, <1>5 DEF Corrections, Authority, LastProcessed
    <2>. QED BY <1>1, <1>3, <1>4, <2>1
  <1>6. serverPos' = PosAt(Len(served))'
    <2>1. CASE UNCHANGED <<served, serverPos>>
      BY <2>1 DEF PredictionInv, ServerInv, PosAt, LastProcessed
    <2>2. CASE Len(served') = m + 1 /\ served'[m + 1].pos = serverPos'
      BY <1>1, <2>2 DEF PosAt
    <2>. QED BY <1>2, <2>1, <2>2
  <1>7. latestCorrection' \in {None} \cup Corrections /\ (latestCorrection' # None => Authority(latestCorrection)')
    <2>1. CASE latestCorrection' = latestCorrection
      <3>1. latestCorrection # None => latestCorrection \in Corrections /\ Authority(latestCorrection)
        BY DEF PredictionInv, Typed, ServerInv
      <3>. QED BY <1>1, <1>5, <2>1, <3>1 DEF Authority, LastProcessed, Typed
    <2>2. CASE latestCorrection' = [seq |-> Len(served'), pos |-> serverPos', fast |-> boosted, round |-> round']
      <3>1. latestCorrection' \in Corrections
        BY <1>1, <1>2, <1>3, <2>2 DEF Corrections
      <3>2. /\ latestCorrection'.seq = Len(served') /\ latestCorrection'.pos = serverPos'
            /\ latestCorrection'.fast = boosted
        BY <2>2
      <3>. QED BY <1>1, <1>3, <1>6, <3>1, <3>2 DEF Authority, LastProcessed
    <2>. QED BY <1>1, <2>1, <2>2
  <1>8. ServerInv'
    <2>1. ASSUME serverTiles = StartTiles, ~boosted, NEW n \in 1 .. Len(served')
          PROVE  served'[n].pos = Moved(PosAt(n - 1)', served'[n].buttons, FALSE, StartTiles)
      <3>1. CASE n \in 1 .. m
        <4>1. served[n].pos = Moved(PosAt(n - 1), served[n].buttons, FALSE, StartTiles)
          BY <2>1, <3>1 DEF PredictionInv, ServerInv, LastProcessed
        <4>2. PosAt(n - 1)' = PosAt(n - 1)
          BY <1>1, <1>4, <3>1
        <4>. QED BY <1>2, <3>1, <4>1, <4>2
      <3>2. CASE n \notin 1 .. m
        <4>1. /\ n = m + 1 /\ served'[n].pos = serverPos'
              /\ serverPos' = Moved(serverPos, served'[n].buttons, boosted, serverTiles)
          BY <1>1, <1>2, <1>3, <2>1, <3>2
        <4>2. serverPos = PosAt(m) /\ n - 1 = m /\ n - 1 \in 0 .. m /\ boosted = FALSE
          BY <1>1, <2>1, <4>1 DEF PredictionInv, ServerInv, Typed, LastProcessed
        <4>3. PosAt(n - 1) = PosAt(m)
          BY <4>2
        <4>4. PosAt(n - 1)' = PosAt(n - 1)
          BY <1>4, <4>2
        <4>. QED BY <2>1, <4>1, <4>2, <4>3, <4>4
      <3>. QED BY <3>1, <3>2
    <2>. QED BY <1>1, <1>6, <1>7, <2>1 DEF PredictionInv, ServerInv, LastProcessed
  <1>9. Typed'
    BY <1>1, <1>2, <1>3, <1>7 DEF Typed, LastProcessed, Predictions
  <1>10. RingsInv'
    BY <1>1 DEF PredictionInv, RingsInv
  <1>11. BaselineInv'
    <2> SUFFICES ASSUME prediction.phase # "AwaitingBaseline"
                 PROVE  Authority(baseline.correction)'
      BY <1>1 DEF PredictionInv, BaselineInv
    <2>1. baseline.correction \in Corrections /\ Authority(baseline.correction)
      BY <1>1 DEF PredictionInv, BaselineInv, Typed, Baselines
    <2>. QED BY <1>1, <1>5, <2>1 DEF Authority, LastProcessed
  <1>12. ReplayInv'
    BY <1>1 DEF PredictionInv, ReplayInv, Path, PredictedAfter
  <1>. QED BY <1>8, <1>9, <1>10, <1>11, <1>12 DEF PredictionInv

\* So do bricks that go, a death, a boost, and the unlocking.
LEMMA OthersKeep ==
  ASSUME PredictionInv, ServerExplosion \/ CollectSpeedBoost \/ UnlockGameplay \/ UNCHANGED vars
  PROVE  PredictionInv'
  <1>1. /\ UNCHANGED <<prediction, tiles, pressed, served, serverPos, latestCorrection, baseline>>
        /\ lastApplied' \in {lastApplied, {}} /\ round' \in {round, "dead"}
        /\ boosted' \in {boosted, TRUE} /\ serverTiles' \in {serverTiles, OpenTiles}
        /\ {} \in Inputs
    BY InputAssumption DEF ServerExplosion, CollectSpeedBoost, UnlockGameplay, sceneVars, serverVars, linkVars, vars
  <1>2. tiles \in {StartTiles, serverTiles'}
    <2>1. serverTiles \in {StartTiles, OpenTiles} /\ tiles \in {StartTiles, serverTiles}
      BY DEF PredictionInv, Typed, ServerInv
    <2>. QED BY <1>1, <2>1
  <1>3. Typed'
    BY <1>1 DEF PredictionInv, Typed, LastProcessed, Rounds
  <1>4. boosted => boosted'
    BY <1>1
  <1>5. serverTiles' = StartTiles => serverTiles = StartTiles
    <2>1. serverTiles \in {StartTiles, OpenTiles}
      BY DEF PredictionInv, Typed
    <2>2. CASE serverTiles' = serverTiles
      BY <2>2
    <2>3. CASE serverTiles' = OpenTiles
      BY <2>1, <2>3
    <2>. QED BY <1>1, <2>2, <2>3
  <1>6. ServerInv'
    BY <1>1, <1>2, <1>4, <1>5 DEF PredictionInv, ServerInv, Authority, PosAt, LastProcessed
  <1>7. RingsInv'
    BY <1>1 DEF PredictionInv, RingsInv
  <1>8. BaselineInv'
    BY <1>1, <1>4 DEF PredictionInv, BaselineInv, Authority, PosAt, LastProcessed
  <1>9. ReplayInv'
    BY <1>1 DEF PredictionInv, ReplayInv, Path, PredictedAfter
  <1>. QED BY <1>3, <1>6, <1>7, <1>8, <1>9 DEF PredictionInv

-----------------------------------------------------------------------------
(* The theorems. *)

\* The invariant holds at first.
LEMMA InitKeeps == Init => PredictionInv
  <1> SUFFICES ASSUME Init PROVE PredictionInv
    OBVIOUS
  <1>1. /\ CentreOf(SpawnCell) \in Positions
        /\ {} \in Inputs /\ MaxSeq \in Nat
    BY MapAssumption, GridAssumption, HitboxAssumption, InputAssumption DEF CentreOf, Positions, Cells
  <1>2. /\ prediction = Suspended /\ prediction \in Predictions
        /\ prediction.recorded = 0 /\ prediction.authoritative = 0 /\ prediction.catchUp = 0
        /\ prediction.phase = "AwaitingBaseline" /\ prediction.inputs = EmptyRing
        /\ prediction.states = EmptyRing
    BY SuspendedType DEF Init, Suspended
  <1>3. Typed
    <2>1. pressed = <<>> /\ Len(pressed) = 0 /\ pressed \in Seq(Inputs)
      BY DEF Init
    <2>2. served = <<>> /\ Len(served) = 0 /\ served \in Seq([buttons : Inputs, pos : Positions])
      BY DEF Init
    <2>3. /\ tiles = StartTiles /\ serverTiles = StartTiles
          /\ latestCorrection = None /\ baseline = None
          /\ serverPos \in Positions /\ lastApplied \in Inputs
          /\ round \in Rounds /\ boosted \in BOOLEAN
      BY <1>1 DEF Init, Rounds
    <2>. QED BY <1>1, <1>2, <2>1, <2>2, <2>3 DEF Typed, LastProcessed
  <1>4. RingsInv /\ BaselineInv /\ ReplayInv
    BY <1>2 DEF RingsInv, BaselineInv, ReplayInv, EmptyRing
  <1>5. ServerInv
    BY DEF Init, ServerInv, PosAt, LastProcessed
  <1>. QED BY <1>3, <1>4, <1>5 DEF PredictionInv

\* Every step keeps it.
LEMMA NextKeeps == PredictionInv /\ [Next]_vars => PredictionInv'
  <1> SUFFICES ASSUME PredictionInv, [Next]_vars PROVE PredictionInv'
    OBVIOUS
  <1>1. CASE ApplySnapshot
    <2>1. /\ prediction' \in {prediction, Suspended}
          /\ UNCHANGED <<tiles, latestCorrection, pressed, serverVars, baseline>>
      BY <1>1 DEF ApplySnapshot, SuspendOnLock
    <2>. QED BY <2>1, SceneKeeps
  <1>2. CASE ExplosionResolved
    <2>1. /\ prediction' \in {prediction, Suspended} /\ tiles' \in {tiles, serverTiles}
          /\ UNCHANGED <<latestCorrection, pressed, serverVars, baseline>>
      BY <1>2 DEF ExplosionResolved, ApplyExplosion, SuspendOnLock, linkVars
    <2>. QED BY <2>1, SceneKeeps
  <1>. QED BY <1>1, <1>2, LocalInputKeeps, CorrectionKeeps, ServerTickKeeps, OthersKeep DEF Next

\* The invariant always holds.
LEMMA PredictionAlways == Spec => []PredictionInv
  BY InitKeeps, NextKeeps, PTL DEF Spec

(***************************************************************************)
(* The client's history and position keep their types, with no sequence in *)
(* the ring that has not been sent and none acknowledged that the server   *)
(* has not processed.                                                      *)
(***************************************************************************)
THEOREM TypeCorrect == Spec => []TypeOK
  <1>1. PredictionInv => TypeOK
    <2> SUFFICES ASSUME PredictionInv PROVE TypeOK
      OBVIOUS
    <2>1. /\ prediction \in Predictions /\ Len(pressed) \in Nat /\ Len(served) \in Nat
          /\ prediction.authoritative <= LastProcessed /\ prediction.catchUp <= prediction.recorded
      BY DEF PredictionInv, Typed
    <2>2. ASSUME NEW i \in Slots
          PROVE  /\ prediction.inputs[i].seq \in 0 .. prediction.recorded
                 /\ prediction.states[i].seq \in 0 .. prediction.recorded
      <3>1. /\ prediction.inputs[i] \in {NoEntry} \cup [seq : Nat \ {0}, buttons : Inputs]
            /\ prediction.states[i] \in {NoEntry} \cup [seq : Nat \ {0}, pos : Positions]
            /\ prediction.recorded \in Nat
        BY <2>1 DEF Predictions
      <3>2. /\ prediction.inputs[i] # NoEntry => prediction.inputs[i].seq <= prediction.recorded
            /\ prediction.states[i] # NoEntry => prediction.states[i].seq <= prediction.recorded
        BY DEF PredictionInv, RingsInv
      <3>. QED BY <3>1, <3>2 DEF NoEntry
    <2>3. /\ prediction.authoritative \in 0 .. LastProcessed
          /\ prediction.catchUp \in 0 .. prediction.recorded
          /\ prediction.phase \in {"AwaitingBaseline", "Active", "Recovering"}
          /\ prediction.pos \in Positions
      BY <2>1 DEF Predictions, LastProcessed
    <2>. QED BY <2>2, <2>3 DEF PredictionInv, Typed, TypeOK, Rounds
  <1>. QED BY <1>1, PredictionAlways, PTL

\* Where the inputs pressed lead from a position is the last of their walk.
LEMMA WalkedIsWalk ==
  ASSUME NEW pos, NEW from, NEW fast, NEW map
  PROVE  Walked(pos, from, fast, map) = Walk(pos, from, Len(pressed), pressed, fast, map)[Len(pressed)]
  BY Zenon DEF Walked, Walk

(***************************************************************************)
(* PredictionIsReplay, for any history: a client that predicts is where    *)
(* the inputs lead from the last correction it accepted, whatever the ring *)
(* has lost or overwritten, and one that recovers shows that correction.   *)
(***************************************************************************)
THEOREM ReplayCorrect == Spec => []PredictionIsReplay
  <1>1. PredictionInv => PredictionIsReplay
    <2> SUFFICES ASSUME PredictionInv PROVE PredictionIsReplay
      OBVIOUS
    <2>1. ASSUME prediction.phase = "Active", baseline.map = tiles
          PROVE  prediction.pos = Walked(baseline.correction.pos, PredictedAfter,
                                         baseline.correction.fast, tiles)
      <3>1. prediction.pos = Path[Len(pressed)]
        BY <2>1 DEF PredictionInv, ReplayInv
      <3>. QED BY <3>1, WalkedIsWalk, Zenon DEF Path
    <2>2. ASSUME prediction.phase = "Recovering"
          PROVE  prediction.pos = IF prediction.authoritative = 0 THEN CentreOf(SpawnCell)
                                  ELSE served[prediction.authoritative].pos
      BY <2>2 DEF PredictionInv, BaselineInv, Authority, PosAt
    <2>. QED BY <2>1, <2>2 DEF PredictionIsReplay
  <1>. QED BY <1>1, PredictionAlways, PTL

(***************************************************************************)
(* AgreesWithServer, for any map and inputs: with the map and the speed as *)
(* they were, a state that the client keeps for a sequence both have       *)
(* simulated is where the server put the player.                           *)
(***************************************************************************)
THEOREM AgreementCorrect == Spec => []AgreesWithServer
  <1>1. PredictionInv => AgreesWithServer
    <2> SUFFICES ASSUME PredictionInv, serverTiles = StartTiles, ~boosted, NEW i \in Slots,
                        prediction.authoritative < prediction.states[i].seq,
                        prediction.states[i].seq <= LastProcessed,
                        prediction.authoritative = PredictedAfter,
                        \A seq \in prediction.authoritative + 1 .. prediction.states[i].seq :
                          served[seq].buttons = pressed[seq]
                 PROVE  prediction.states[i].pos = served[prediction.states[i].seq].pos
      BY DEF AgreesWithServer
    <2> DEFINE a == prediction.authoritative
               last == prediction.states[i].seq
               n == Len(pressed)
               pos == baseline.correction.pos
               f == [k \in Nat |-> PosAt(k)]
    <2>1. /\ prediction \in Predictions /\ prediction.recorded \in {0, n} /\ n \in Nat
          /\ LastProcessed \in Nat
      BY DEF PredictionInv, Typed, LastProcessed
    <2>2. /\ a \in Nat /\ prediction.states[i] \in {NoEntry} \cup [seq : Nat \ {0}, pos : Positions]
      BY <2>1 DEF Predictions
    <2>3. prediction.states[i] # NoEntry /\ last \in Nat \ {0}
      BY <2>2 DEF NoEntry
    <2>4. prediction.phase = "Active" /\ last <= n
      BY <2>1, <2>3 DEF PredictionInv, RingsInv
    <2>5. /\ a = baseline.correction.seq /\ pos = PosAt(a) /\ ~baseline.correction.fast
          /\ baseline \in Baselines
      BY <2>4 DEF PredictionInv, BaselineInv, Authority, Typed
    <2>6. tiles = StartTiles /\ baseline.map = tiles /\ baseline.correction.fast = FALSE
      <3>1. baseline.correction.fast \in BOOLEAN
        BY <2>5 DEF Baselines, Corrections
      <3>2. tiles = StartTiles
        BY DEF PredictionInv, ServerInv
      <3>3. baseline.map = StartTiles
        BY <2>4, <3>2 DEF PredictionInv, BaselineInv
      <3>. QED BY <2>5, <3>1, <3>2, <3>3
    <2>7. prediction.states[i].pos = Path[last]
      BY <2>3, <2>4, <2>6 DEF PredictionInv, ReplayInv
    <2>8. Path = Walk(pos, a, n, pressed, FALSE, StartTiles)
      BY <2>6, Zenon DEF Path
    <2>9. GoesFrom(f, pos, a, last, pressed, FALSE, StartTiles)
      <3>1. f[a] = pos
        BY <2>2, <2>5
      <3>2. ASSUME NEW seq \in a + 1 .. last
            PROVE  f[seq] = Moved(f[seq - 1], pressed[seq], FALSE, StartTiles)
        <4>1. seq \in 1 .. LastProcessed /\ seq \in Nat /\ seq - 1 \in Nat
          BY <2>1, <2>2, <2>3
        <4>2. served[seq].pos = Moved(PosAt(seq - 1), served[seq].buttons, FALSE, StartTiles)
          BY <4>1 DEF PredictionInv, ServerInv
        <4>3. served[seq].buttons = pressed[seq]
          OBVIOUS
        <4>4. PosAt(seq) = served[seq].pos
          BY <4>1 DEF PosAt
        <4>5. f[seq] = PosAt(seq) /\ f[seq - 1] = PosAt(seq - 1)
          BY <4>1
        <4>. QED BY <4>2, <4>3, <4>4, <4>5
      <3>. QED BY <3>1, <3>2 DEF GoesFrom
    <2>10. f[last] = PosAt(last) /\ PosAt(last) = served[last].pos
      BY <2>3 DEF PosAt
    <2>11. a <= n /\ last \in a .. n /\ last \in a .. last
      BY <2>1, <2>2, <2>3, <2>4
    <2> HIDE DEF f, pos, a, last, n
    <2>12. f[last] = Walk(pos, a, n, pressed, FALSE, StartTiles)[last]
      <3> DEFINE fast == FALSE
      <3>1. a \in Nat /\ n \in Nat /\ GoesFrom(f, pos, a, last, pressed, fast, StartTiles)
        BY <2>1, <2>2, <2>9 DEF a, n
      <3> HIDE DEF fast
      <3>2. OnWalk(f, last, pos, a, n, pressed, fast, StartTiles)
        BY ONLY <2>11, <3>1, WalkIs
      <3>. QED BY <2>11, <3>2 DEF OnWalk, fast
    <2>. QED BY <2>7, <2>8, <2>10, <2>12 DEF last
  <1>. QED BY <1>1, PredictionAlways, PTL
=============================================================================
