------------------------- MODULE InputStreamProofs -------------------------
(***************************************************************************)
(* What the server applies of a player's input, for every batch size,      *)
(* lead and delay.  The ring is indexed by sequence modulo its size, so    *)
(* the proof rests on one fact of arithmetic: two sequences less than the  *)
(* size apart never share a slot.  The client's history and the packets in *)
(* flight say that a batch carries what was pressed; the ring is exact     *)
(* because everything heard lies less than one ring ahead.                 *)
(***************************************************************************)
EXTENDS InputStream, TLAPS

-----------------------------------------------------------------------------
(* Slots. *)

\* What the code's asserted sizes are.
LEMMA BufferFacts == /\ BatchSize \in Nat \ {0} /\ BufferSize \in Nat \ {0}
                     /\ MaxBufferedInputLead = BufferSize - 1
  BY BatchAssumption DEF BufferSize, MaxBufferedInputLead

\* A remainder is a slot of the ring.
LEMMA SlotRange == ASSUME NEW b \in Nat \ {0}, NEW x \in Int PROVE x % b \in 0 .. b - 1
  OBVIOUS

\* A remainder, by the quotient.
LEMMA SlotOf == ASSUME NEW b \in Nat \ {0}, NEW x \in Int
                PROVE x % b = x - b * (x \div b) /\ x \div b \in Int
  OBVIOUS

\* Two sequences of a window no longer than the ring have slots of their own.
LEMMA OneSlotEach ==
  ASSUME NEW b \in Nat \ {0}, NEW x \in Int, NEW y \in Int, x <= y, y < x + b, x % b = y % b
  PROVE  x = y
  <1> DEFINE p == x \div b
             q == y \div b
  <1>1. p \in Int /\ q \in Int
    OBVIOUS
  <1>2. x % b = x - b * p /\ y % b = y - b * q
    BY SlotOf
  <1> HIDE DEF p, q
  <1>3. y - x = b * (q - p)
    <2>1. b * (q - p) = b * q - b * p
      BY <1>1
    <2>2. b * q \in Int /\ b * p \in Int
      BY <1>1
    <2>. QED BY <1>2, <2>1, <2>2
  <1>4. ASSUME q >= p + 1 PROVE FALSE
    <2>1. b * (q - p) >= b
      BY <1>1, <1>4
    <2>. QED BY <1>3, <2>1
  <1>5. ASSUME q <= p - 1 PROVE FALSE
    <2>1. b * (q - p) <= -b
      BY <1>1, <1>5
    <2>. QED BY <1>3, <2>1
  <1>6. q = p
    BY <1>1, <1>4, <1>5
  <1>. QED BY <1>1, <1>3, <1>6

\* The same for a window that starts anywhere.
LEMMA WindowSlots ==
  ASSUME NEW b \in Nat \ {0}, NEW lo \in Int, NEW x \in Int, NEW y \in Int,
         x > lo, x <= lo + b, y > lo, y <= lo + b, x % b = y % b
  PROVE  x = y
  <1>1. x <= y => y < x + b
    OBVIOUS
  <1>2. y <= x => x < y + b
    OBVIOUS
  <1>3. CASE x <= y
    BY <1>1, <1>3, OneSlotEach, Zenon
  <1>4. CASE y <= x
    BY <1>2, <1>4, OneSlotEach, Zenon
  <1>. QED BY <1>3, <1>4

\* The largest of one number.
LEMMA MaxOfOne == ASSUME NEW s \in Int PROVE Max({s}) = s
  BY DEF Max

\* The smaller of two numbers.
LEMMA MinOfTwo ==
  ASSUME NEW s \in Int, NEW t \in Int
  PROVE  Min({s, t}) = IF s <= t THEN s ELSE t
  <1> DEFINE m == IF s <= t THEN s ELSE t
  <1>1. m \in {s, t} /\ \A y \in {s, t} : m <= y
    OBVIOUS
  <1>2. \A x \in {s, t} : (\A y \in {s, t} : x <= y) => x = m
    OBVIOUS
  <1> HIDE DEF m
  <1>3. Min({s, t}) = m
    BY <1>1, <1>2, Zenon DEF Min
  <1>. QED BY <1>3 DEF m

-----------------------------------------------------------------------------
(* What the client sends. *)

\* The history holds the last BatchSize inputs.
HistoryInv ==
  \A seq \in 1 .. nextInputSeq :
    seq > nextInputSeq - BatchSize => inputHistory[seq % BatchSize] = seq

\* The packet that ends with sequence last says what was pressed.
Oldest(last) == IF last <= BatchSize THEN 1 ELSE last - BatchSize + 1
TrueBatch(last) ==
  [base   |-> Oldest(last),
   inputs |-> [i \in 1 .. last - Oldest(last) + 1 |-> Oldest(last) + i - 1]]

NetworkInv ==
  \A k \in 1 .. Len(network) : \E last \in 1 .. nextInputSeq : network[k] = TrueBatch(last)

\* Sending keeps the history of what was sent.
LEMMA HistoryKept ==
  ASSUME TypeOK, HistoryInv, SendInput
  PROVE  HistoryInv'
  <1> DEFINE new == nextInputSeq + 1
  <1>1. /\ nextInputSeq' = new /\ nextInputSeq \in Nat
        /\ inputHistory' = [inputHistory EXCEPT ![new % BatchSize] = new]
        /\ inputHistory \in [HistorySlots -> Nat]
    BY DEF SendInput, TypeOK
  <1>2. new % BatchSize \in HistorySlots
    BY <1>1, SlotRange, BatchAssumption DEF HistorySlots
  <1>3. ASSUME NEW seq \in 1 .. new, seq > new - BatchSize
        PROVE  inputHistory'[seq % BatchSize] = seq
    <2>1. seq \in Int /\ seq % BatchSize \in HistorySlots
      <3>1. seq \in Int
        BY <1>1
      <3>. QED BY <3>1, SlotRange, BatchAssumption DEF HistorySlots
    <2>2. CASE seq = new
      BY <1>1, <1>2, <2>2
    <2>3. CASE seq # new
      <3>1. seq \in 1 .. nextInputSeq /\ seq > nextInputSeq - BatchSize
        BY <1>1, <1>3, <2>3, BatchAssumption
      <3>2. seq % BatchSize # new % BatchSize
        <4>1. new \in Int /\ seq <= new /\ new < seq + BatchSize
          BY <1>1, <1>3, BatchAssumption
        <4>. QED BY <2>1, <2>3, <4>1, OneSlotEach, BatchAssumption, Zenon
      <3>. QED BY <1>1, <2>1, <3>1, <3>2 DEF HistoryInv
    <2>. QED BY <2>2, <2>3
  <1>. QED BY <1>1, <1>3 DEF HistoryInv

\* The batch built from the history is the true one.
LEMMA BatchIsTrue ==
  ASSUME TypeOK, HistoryInv, SendInput
  PROVE  Batch(nextInputSeq + 1, inputHistory') = TrueBatch(nextInputSeq + 1)
  <1> DEFINE last == nextInputSeq + 1
             count == Min({last, BatchSize})
  <1>1. last \in Nat \ {0} /\ nextInputSeq' = last
    BY DEF SendInput, TypeOK
  <1>2. count = (IF last <= BatchSize THEN last ELSE BatchSize)
    BY <1>1, MinOfTwo, BatchAssumption
  <1>3. last - count + 1 = Oldest(last) /\ count = last - Oldest(last) + 1
    BY <1>1, <1>2, BatchAssumption DEF Oldest
  <1>4. ASSUME NEW i \in 1 .. count
        PROVE  inputHistory'[(Oldest(last) + i - 1) % BatchSize] = Oldest(last) + i - 1
    <2>1. Oldest(last) + i - 1 \in 1 .. last /\ Oldest(last) + i - 1 > last - BatchSize
      BY <1>1, <1>2, BatchAssumption DEF Oldest
    <2>. QED BY <1>1, <2>1, HistoryKept DEF HistoryInv
  <1> HIDE DEF count, last
  <1>5. [i \in 1 .. count |-> inputHistory'[(Oldest(last) + i - 1) % BatchSize]]
          = [i \in 1 .. last - Oldest(last) + 1 |-> Oldest(last) + i - 1]
    BY <1>3, <1>4
  <1>. QED BY <1>3, <1>5 DEF Batch, TrueBatch, last, count

\* A true batch is one of its type.
LEMMA TrueBatchType ==
  ASSUME NEW last \in Nat \ {0}
  PROVE  /\ TrueBatch(last) \in [base : Nat \ {0}, inputs : Seq(Nat)]
         /\ Len(TrueBatch(last).inputs) = last - Oldest(last) + 1
         /\ TrueBatch(last).base = Oldest(last)
         /\ Oldest(last) \in 1 .. last
         /\ \A seq \in Oldest(last) .. last :
              TrueBatch(last).inputs[seq - Oldest(last) + 1] = seq
  <1>1. Oldest(last) \in 1 .. last
    BY BatchAssumption DEF Oldest
  <1> DEFINE inputs == [i \in 1 .. last - Oldest(last) + 1 |-> Oldest(last) + i - 1]
  <1>2. last - Oldest(last) + 1 \in Nat
    BY <1>1
  <1>3. inputs \in Seq(Nat) /\ Len(inputs) = last - Oldest(last) + 1
    BY <1>1, <1>2
  <1>4. ASSUME NEW seq \in Oldest(last) .. last PROVE inputs[seq - Oldest(last) + 1] = seq
    BY <1>1
  <1> HIDE DEF inputs
  <1>. QED BY <1>1, <1>3, <1>4 DEF TrueBatch, inputs

-----------------------------------------------------------------------------
(* The ring. *)

Pressed(seq) == [seq |-> seq, buttons |-> seq]

\* Every slot is empty or holds a sequence heard of and still to come, and each
\* of these has its slot; none is a whole ring ahead.
RingInv ==
  /\ \A i \in RingSlots :
       \/ inputRing[i] = NoEntry
       \/ \E seq \in heard : /\ seq > lastProcessed /\ seq % BufferSize = i
                             /\ inputRing[i] = Pressed(seq)
  /\ \A seq \in heard :
       /\ seq > 0 /\ seq <= lastProcessed + MaxBufferedInputLead
       /\ seq > lastProcessed => inputRing[seq % BufferSize] = Pressed(seq)

StreamInv == TypeOK /\ HistoryInv /\ NetworkInv /\ RingInv

\* The invariant of the stream holds at first.
LEMMA InitStream == Init => StreamInv
  <1> SUFFICES ASSUME Init PROVE StreamInv
    OBVIOUS
  <1>1. TypeOK
    <2>1. /\ inputHistory \in [HistorySlots -> Nat]
          /\ inputRing \in [RingSlots -> [seq : Nat, buttons : Nat]]
          /\ network \in Seq([base : Nat \ {0}, inputs : Seq(Nat)])
      BY DEF Init, NoEntry, NoButtons
    <2>. QED BY <2>1 DEF Init, TypeOK, NoButtons, Unset
  <1>2. HistoryInv /\ NetworkInv /\ RingInv
    BY DEF Init, HistoryInv, NetworkInv, RingInv
  <1>. QED BY <1>1, <1>2 DEF StreamInv

\* Sending keeps the invariant of the stream.
LEMMA SendStream == ASSUME StreamInv, SendInput PROVE StreamInv'
  <1> DEFINE seq == nextInputSeq + 1
  <1>1. /\ nextInputSeq' = seq /\ seq \in Nat \ {0} /\ nextInputSeq \in Nat
        /\ inputHistory' = [inputHistory EXCEPT ![seq % BatchSize] = seq]
        /\ UNCHANGED <<clientUnlocked, roundVars, bufferVars, consumeVars>>
    BY DEF SendInput, StreamInv, TypeOK
  <1>2. network' = Append(network, TrueBatch(seq)) \/ network' = network
    BY BatchIsTrue DEF SendInput, StreamInv
  <1>3. TrueBatch(seq) \in [base : Nat \ {0}, inputs : Seq(Nat)]
    BY <1>1, TrueBatchType
  <1>4. TypeOK'
    <2>1. inputHistory' \in [HistorySlots -> Nat]
      BY <1>1 DEF StreamInv, TypeOK
    <2>2. network' \in Seq([base : Nat \ {0}, inputs : Seq(Nat)])
      <3>1. network \in Seq([base : Nat \ {0}, inputs : Seq(Nat)])
        BY DEF StreamInv, TypeOK
      <3> DEFINE packets == [base : Nat \ {0}, inputs : Seq(Nat)]
      <3>2. TrueBatch(seq) \in packets /\ network \in Seq(packets)
        BY <1>3, <3>1
      <3> HIDE DEF packets
      <3>3. network' \in Seq(packets)
        BY <1>2, <3>2
      <3>. QED BY <3>3 DEF packets
    <2>. QED BY <1>1, <2>1, <2>2 DEF StreamInv, TypeOK, roundVars, bufferVars, consumeVars
  <1>5. HistoryInv'
    BY HistoryKept DEF StreamInv
  <1>6. NetworkInv'
    <2>1. ASSUME NEW k \in 1 .. Len(network')
          PROVE  \E last \in 1 .. seq : network'[k] = TrueBatch(last)
      <3>1. network \in Seq([base : Nat \ {0}, inputs : Seq(Nat)])
        BY DEF StreamInv, TypeOK
      <3>2. CASE network' = network
        <4>1. PICK last \in 1 .. nextInputSeq : network[k] = TrueBatch(last)
          BY <2>1, <3>2 DEF StreamInv, NetworkInv
        <4>. QED BY <1>1, <3>2, <4>1
      <3>3. CASE network' = Append(network, TrueBatch(seq))
        <4>1. CASE k = Len(network) + 1
          <5>1. network'[k] = TrueBatch(seq)
            BY <3>1, <3>3, <4>1
          <5>. QED BY <1>1, <5>1
        <4>2. CASE k \in 1 .. Len(network)
          <5>1. network'[k] = network[k]
            BY <3>1, <3>3, <4>2
          <5>2. PICK last \in 1 .. nextInputSeq : network[k] = TrueBatch(last)
            BY <4>2 DEF StreamInv, NetworkInv
          <5>. QED BY <1>1, <5>1, <5>2
        <4>. QED BY <2>1, <3>1, <3>3, <4>1, <4>2
      <3>. QED BY <1>2, <3>2, <3>3
    <2>. QED BY <1>1, <2>1 DEF NetworkInv
  <1>7. RingInv'
    BY <1>1 DEF StreamInv, RingInv, bufferVars, consumeVars
  <1>. QED BY <1>4, <1>5, <1>6, <1>7 DEF StreamInv

\* Whoever takes a packet off the network leaves true ones there.
LEMMA NetworkKept ==
  ASSUME StreamInv, network # <<>>, network' = Tail(network), nextInputSeq' = nextInputSeq
  PROVE  NetworkInv' /\ network' \in Seq([base : Nat \ {0}, inputs : Seq(Nat)])
  <1>1. network \in Seq([base : Nat \ {0}, inputs : Seq(Nat)])
    BY DEF StreamInv, TypeOK
  <1>2. ASSUME NEW k \in 1 .. Len(network')
        PROVE  \E last \in 1 .. nextInputSeq : network'[k] = TrueBatch(last)
    <2>1. network'[k] = network[k + 1] /\ k + 1 \in 1 .. Len(network)
      BY <1>1, <1>2
    <2>. QED BY <2>1 DEF StreamInv, NetworkInv
  <1>. QED BY <1>1, <1>2 DEF NetworkInv

\* What a packet adds to the ring.
LEMMA OnInputStream == ASSUME StreamInv, OnInput PROVE StreamInv'
  <1> DEFINE msg  == Head(network)
             last == msg.base + Len(msg.inputs) - 1
             new  == {seq \in msg.base .. last : Buffers(seq)}
             At(i) == {seq \in new : seq % BufferSize = i}
             top == lastProcessed + MaxBufferedInputLead
  <1>1. /\ network # <<>> /\ network' = Tail(network)
        /\ UNCHANGED <<clientVars, roundVars, consumeVars>>
        /\ lastProcessed \in Nat /\ lastReceived \in Nat /\ heard \subseteq Nat
        /\ nextInputSeq \in Nat /\ top \in Int
    BY BufferFacts DEF OnInput, StreamInv, TypeOK
  <1>2. PICK end \in 1 .. nextInputSeq : msg = TrueBatch(end)
    <2>1. network \in Seq([base : Nat \ {0}, inputs : Seq(Nat)])
      BY DEF StreamInv, TypeOK
    <2>2. msg = network[1] /\ 1 \in 1 .. Len(network)
      BY <1>1, <2>1
    <2>. QED BY <2>2 DEF StreamInv, NetworkInv
  <1>3. /\ end \in Nat \ {0} /\ msg.base = Oldest(end) /\ last = end /\ Oldest(end) \in 1 .. end
        /\ \A seq \in Oldest(end) .. end : msg.inputs[seq - msg.base + 1] = seq
    <2>1. end \in Nat \ {0}
      BY <1>1, <1>2
    <2>2. /\ msg.base = Oldest(end) /\ Oldest(end) \in 1 .. end
          /\ Len(msg.inputs) = end - Oldest(end) + 1
          /\ \A seq \in Oldest(end) .. end : msg.inputs[seq - Oldest(end) + 1] = seq
      BY <1>2, <2>1, TrueBatchType, Zenon
    <2> HIDE DEF msg
    <2>3. last = end
      BY <2>1, <2>2
    <2>. QED BY <2>1, <2>2, <2>3, Zenon
  <1>4. new = {seq \in Oldest(end) .. end : seq > lastProcessed /\ seq <= top}
    BY <1>3 DEF Buffers
  <1>5. heard' = heard \cup new
    <2>1. heard' = heard \cup {seq \in end - BatchSize + 1 .. end : seq > lastProcessed /\ seq <= top}
      BY <1>3 DEF OnInput
    <2>2. \A seq \in Int : seq > lastProcessed =>
            (seq \in end - BatchSize + 1 .. end <=> seq \in Oldest(end) .. end)
      BY <1>1, <1>3, BatchAssumption DEF Oldest
    <2>3. {seq \in end - BatchSize + 1 .. end : seq > lastProcessed /\ seq <= top}
            = {seq \in Oldest(end) .. end : seq > lastProcessed /\ seq <= top}
      BY <1>1, <1>3, <2>2, BatchAssumption
    <2>. QED BY <1>4, <2>1, <2>3
  <1>6. inputRing' = [i \in RingSlots |->
                        IF At(i) = {} THEN inputRing[i]
                        ELSE [seq |-> Max(At(i)), buttons |-> msg.inputs[Max(At(i)) - msg.base + 1]]]
    BY DEF OnInput
  <1>7. lastReceived' = Max(new \cup {lastReceived})
    BY DEF OnInput
  <1>8. late' \in BOOLEAN
    BY DEF OnInput, StreamInv, TypeOK
  <1> HIDE DEF msg, last, new, top
  <1>9. \A x, y \in Int :
          x > lastProcessed /\ x <= top /\ y > lastProcessed /\ y <= top
            /\ x % BufferSize = y % BufferSize => x = y
    <2> SUFFICES ASSUME NEW x \in Int, NEW y \in Int,
                        x > lastProcessed, x <= top, y > lastProcessed, y <= top,
                        x % BufferSize = y % BufferSize
                 PROVE  x = y
      BY Zenon
    <2>1. x <= lastProcessed + BufferSize /\ y <= lastProcessed + BufferSize
      BY <1>1, BufferFacts DEF top
    <2>2. lastProcessed \in Int
      BY <1>1
    <2>. QED BY <2>1, <2>2, BufferFacts, WindowSlots, Zenon
  <1>10. new \subseteq Nat \ {0}
    BY <1>3, <1>4
  <1>11. ASSUME NEW i \in RingSlots, NEW seq \in At(i)
         PROVE  inputRing'[i] = Pressed(seq)
    <2>1. At(i) = {seq}
      BY <1>4, <1>9, <1>10
    <2>2. Max(At(i)) = seq
      <3>1. seq \in Int
        BY <1>10
      <3>. QED BY <2>1, <3>1, MaxOfOne
    <2>3. msg.inputs[seq - msg.base + 1] = seq
      BY <1>3, <1>4
    <2>. QED BY <1>6, <2>1, <2>2, <2>3 DEF Pressed
  <1>12. ASSUME NEW i \in RingSlots, At(i) = {}
         PROVE  inputRing'[i] = inputRing[i]
    BY <1>6, <1>12
  <1>13. lastReceived' \in Nat
    <2>1. CASE new = {}
      <3>1. new \cup {lastReceived} = {lastReceived}
        BY <2>1
      <3>. QED BY <1>1, <1>7, <3>1, MaxOfOne
    <2>2. CASE new # {}
      <3> DEFINE hi == IF end <= top THEN end ELSE top
                 m == IF hi >= lastReceived THEN hi ELSE lastReceived
      <3>1. hi \in new /\ \A seq \in new : hi >= seq
        BY <1>1, <1>3, <1>4, <2>2, SMTT(30)
      <3>2. m \in new \cup {lastReceived} /\ \A seq \in new \cup {lastReceived} : m >= seq
        BY <1>1, <1>10, <3>1
      <3>3. \A x \in new \cup {lastReceived} :
              (\A y \in new \cup {lastReceived} : x >= y) => x \in Nat
        BY <1>1, <1>10
      <3> HIDE DEF m
      <3>. QED BY <1>7, <3>2, <3>3, Zenon DEF Max
    <2>. QED BY <2>1, <2>2
  <1>14. \A seq \in Nat : seq % BufferSize \in RingSlots
    BY BufferFacts, SlotRange DEF RingSlots
  <1>15. TypeOK'
    <2>1. inputRing' \in [RingSlots -> [seq : Nat, buttons : Nat]]
      <3>1. \A i \in RingSlots : inputRing'[i] \in [seq : Nat, buttons : Nat]
        <4> TAKE i \in RingSlots
        <4>1. CASE At(i) = {}
          BY <1>12, <4>1 DEF StreamInv, TypeOK
        <4>2. CASE At(i) # {}
          <5>1. PICK seq \in At(i) : TRUE
            BY <4>2
          <5>2. seq \in Nat /\ inputRing'[i] = Pressed(seq)
            BY <1>10, <1>11, <5>1
          <5>. QED BY <5>2 DEF Pressed
        <4>. QED BY <4>1, <4>2
      <3>. QED BY <1>6, <3>1
    <2>2. network' \in Seq([base : Nat \ {0}, inputs : Seq(Nat)])
      BY <1>1, NetworkKept DEF clientVars
    <2>3. heard' \subseteq Nat
      BY <1>1, <1>5, <1>10
    <2>. QED
      BY <1>1, <1>8, <1>13, <2>1, <2>2, <2>3 DEF StreamInv, TypeOK, clientVars, roundVars, consumeVars
  <1>16. RingInv'
    <2>1. lastProcessed' = lastProcessed
      BY <1>1 DEF consumeVars
    <2>2. ASSUME NEW i \in RingSlots
          PROVE  \/ inputRing'[i] = NoEntry
                 \/ \E seq \in heard' : /\ seq > lastProcessed /\ seq % BufferSize = i
                                        /\ inputRing'[i] = Pressed(seq)
      <3>1. CASE At(i) = {}
        BY <1>5, <1>12, <3>1 DEF StreamInv, RingInv
      <3>2. CASE At(i) # {}
        <4>1. PICK seq \in At(i) : TRUE
          BY <3>2
        <4>. QED BY <1>4, <1>5, <1>11, <4>1
      <3>. QED BY <3>1, <3>2
    <2>3. ASSUME NEW seq \in heard'
          PROVE  /\ seq > 0 /\ seq <= top
                 /\ seq > lastProcessed => inputRing'[seq % BufferSize] = Pressed(seq)
      <3>1. CASE seq \in new
        <4>1. seq > 0 /\ seq <= top /\ seq \in Nat
          BY <1>4, <1>10, <3>1
        <4>2. seq % BufferSize \in RingSlots /\ seq \in At(seq % BufferSize)
          BY <1>14, <3>1, <4>1
        <4>. QED BY <1>11, <4>1, <4>2, Zenon
      <3>2. CASE seq \in heard /\ seq \notin new
        <4>1. seq > 0 /\ seq <= top /\ seq \in Nat
          BY <1>1, <3>2 DEF StreamInv, RingInv, top
        <4>2. ASSUME seq > lastProcessed PROVE At(seq % BufferSize) = {}
          BY <1>4, <1>9, <1>10, <3>2, <4>1, <4>2
        <4>3. seq > lastProcessed => inputRing[seq % BufferSize] = Pressed(seq)
          BY <3>2 DEF StreamInv, RingInv
        <4>4. seq % BufferSize \in RingSlots
          BY <1>14, <4>1
        <4>. QED BY <1>12, <4>1, <4>2, <4>3, <4>4
      <3>. QED BY <1>5, <3>1, <3>2
    <2>. QED BY <2>1, <2>2, <2>3 DEF RingInv, top
  <1>17. HistoryInv' /\ NetworkInv'
    BY <1>1, NetworkKept DEF clientVars, StreamInv, HistoryInv
  <1>. QED BY <1>15, <1>16, <1>17 DEF StreamInv

-----------------------------------------------------------------------------
(* The tick. *)

\* A ring that is not touched stays exact.
LEMMA RingKept ==
  ASSUME RingInv, UNCHANGED <<inputRing, lastProcessed, heard>> PROVE RingInv'
  BY DEF RingInv

\* An entry bears a sequence exactly if it was heard and is still to come.
LEMMA EntryOfNext ==
  ASSUME StreamInv
  PROVE  LET seq == lastProcessed + 1
             entry == inputRing[seq % BufferSize]
         IN  /\ seq \in Nat /\ seq % BufferSize \in RingSlots
             /\ seq \in heard => entry = Pressed(seq)
             /\ seq \notin heard => entry.seq # seq
  <1> DEFINE seq == lastProcessed + 1
             slot == seq % BufferSize
  <1>1. lastProcessed \in Nat /\ seq \in Nat /\ seq > lastProcessed
    BY DEF StreamInv, TypeOK
  <1>2. slot \in RingSlots
    BY <1>1, BufferFacts, SlotRange DEF RingSlots
  <1>3. seq \in heard => inputRing[slot] = Pressed(seq)
    BY <1>1 DEF StreamInv, RingInv
  <1>4. ASSUME inputRing[slot].seq = seq PROVE seq \in heard
    <2>1. inputRing[slot] # NoEntry
      BY <1>1, <1>4 DEF NoEntry
    <2>2. PICK s \in heard : inputRing[slot] = Pressed(s)
      BY <1>2, <2>1 DEF StreamInv, RingInv
    <2>. QED BY <1>4, <2>2 DEF Pressed
  <1>. QED BY <1>1, <1>2, <1>3, <1>4

\* What one tick does to the ring: nothing, or it takes the next sequence off.
LEMMA TickCases ==
  ASSUME StreamInv, Tick
  PROVE  /\ UNCHANGED <<clientVars, network, phase, lastReceived, heard, late>>
         /\ \/ UNCHANGED <<inputRing, lastProcessed>>
            \/ /\ lastProcessed' = lastProcessed + 1
               /\ \/ /\ lastProcessed + 1 \in heard
                     /\ applied' = lastProcessed + 1 /\ lastApplied' = lastProcessed + 1
                     /\ inputRing' = [inputRing EXCEPT ![(lastProcessed + 1) % BufferSize] = NoEntry]
                  \/ /\ lastProcessed + 1 \notin heard
                     /\ applied' = lastApplied /\ UNCHANGED <<lastApplied, inputRing>>
  <1> DEFINE due == Passed(consumeIn)
             c == IF lastReceived # 0 /\ ~timelineStarted THEN InputLead ELSE due
             seq == lastProcessed + 1
             entry == inputRing[seq % BufferSize]
  <1>1. \/ UNCHANGED <<inputRing, lastProcessed>>
        \/ NoInputYet(c)
        \/ WaitForDeadline(c)
        \/ ConsumeNext(c)
    BY Zenon DEF Tick
  <1>2. ASSUME ConsumeNext(c)
        PROVE  /\ lastProcessed' = seq
               /\ \/ /\ entry.seq = seq /\ applied' = entry.buttons /\ lastApplied' = entry.buttons
                     /\ inputRing' = [inputRing EXCEPT ![seq % BufferSize] = NoEntry]
                  \/ /\ entry.seq # seq
                     /\ applied' = lastApplied /\ UNCHANGED <<lastApplied, inputRing>>
    BY <1>2, Zenon DEF ConsumeNext
  <1>3. /\ seq \in heard => entry = Pressed(seq)
        /\ seq \notin heard => entry.seq # seq
    BY EntryOfNext
  <1>4. Pressed(seq).seq = seq /\ Pressed(seq).buttons = seq
    BY DEF Pressed
  <1> HIDE DEF c, seq, entry
  <1>5. ASSUME ConsumeNext(c)
        PROVE  \/ /\ seq \in heard /\ applied' = seq /\ lastApplied' = seq
                  /\ inputRing' = [inputRing EXCEPT ![seq % BufferSize] = NoEntry]
               \/ /\ seq \notin heard
                  /\ applied' = lastApplied /\ UNCHANGED <<lastApplied, inputRing>>
    BY <1>2, <1>3, <1>4, <1>5
  <1>6. UNCHANGED <<clientVars, network, phase, lastReceived, heard, late>>
    BY DEF Tick
  <1>7. ASSUME NoInputYet(c) \/ WaitForDeadline(c) PROVE UNCHANGED <<inputRing, lastProcessed>>
    BY <1>7 DEF NoInputYet, WaitForDeadline
  <1>. QED BY <1>1, <1>2, <1>5, <1>6, <1>7 DEF seq

\* A tick keeps the types.
LEMMA TickType == ASSUME StreamInv, Tick PROVE TypeOK'
  <1>1. /\ TypeOK
        /\ UNCHANGED <<clientVars, network, phase, lastReceived, heard, late>>
    BY TickCases DEF StreamInv
  <1>2. /\ inputRing' \in [RingSlots -> [seq : Nat, buttons : Nat]] /\ lastProcessed' \in Nat
    <2>1. NoEntry \in [seq : Nat, buttons : Nat]
      BY DEF NoEntry, NoButtons
    <2>2. inputRing \in [RingSlots -> [seq : Nat, buttons : Nat]] /\ lastProcessed \in Nat
      BY <1>1 DEF TypeOK
    <2>3. \/ inputRing' = inputRing
          \/ inputRing' = [inputRing EXCEPT ![(lastProcessed + 1) % BufferSize] = NoEntry]
      BY TickCases
    <2>4. lastProcessed' \in {lastProcessed, lastProcessed + 1}
      BY TickCases
    <2>. QED BY <2>1, <2>2, <2>3, <2>4
  <1>3. \A left \in Nat \cup {Unset} : Passed(left) \in Nat \cup {Unset}
    BY DEF Passed, Unset
  <1>4. unlockIn' \in Nat \cup {Unset} /\ locked' \in BOOLEAN
    <2>1. Passed(unlockIn) \in Nat \cup {Unset}
      BY <1>1, <1>3 DEF TypeOK
    <2>2. \/ unlockIn' = Unset
          \/ unlockIn' = Passed(unlockIn)
      BY Zenon DEF Tick
    <2>. QED BY <2>1, <2>2 DEF Tick
  <1>5. InputLead \in Nat /\ Passed(consumeIn) \in Nat
    BY <1>1, LeadAssumption, BufferFacts DEF TypeOK, Passed
  <1>6. ASSUME NEW c \in Nat, NoInputYet(c) \/ WaitForDeadline(c) \/ ConsumeNext(c)
        PROVE  /\ consumeIn' \in Nat /\ timelineStarted' \in BOOLEAN /\ waited' \in Nat
    <2>1. waited \in Nat /\ timelineStarted \in BOOLEAN
      BY <1>1 DEF TypeOK
    <2>2. CASE NoInputYet(c)
      BY <2>1, <2>2 DEF NoInputYet
    <2>3. CASE WaitForDeadline(c)
      BY <2>1, <2>3 DEF WaitForDeadline
    <2>4. CASE ConsumeNext(c)
      <3>1. consumeIn' = 0 /\ timelineStarted' = TRUE /\ waited' = waited
        BY <2>4 DEF ConsumeNext
      <3>. QED BY <2>1, <3>1
    <2>. QED BY <1>6, <2>2, <2>3, <2>4
  <1>7. consumeIn' \in Nat /\ timelineStarted' \in BOOLEAN /\ waited' \in Nat
    <2> DEFINE c == IF lastReceived # 0 /\ ~timelineStarted THEN InputLead ELSE Passed(consumeIn)
    <2>1. c \in Nat
      BY <1>5
    <2>2. \/ NoInputYet(c) \/ WaitForDeadline(c) \/ ConsumeNext(c)
          \/ consumeIn' = Passed(consumeIn) /\ UNCHANGED <<timelineStarted, waited>>
      BY Zenon DEF Tick
    <2> HIDE DEF c
    <2>. QED BY <1>1, <1>5, <1>6, <2>1, <2>2 DEF TypeOK
  <1>8. applied' \in Nat /\ lastApplied' \in Nat
    <2> DEFINE c == IF lastReceived # 0 /\ ~timelineStarted THEN InputLead ELSE Passed(consumeIn)
    <2>1. \/ NoInputYet(c)
          \/ WaitForDeadline(c)
          \/ ConsumeNext(c)
          \/ applied' = NoButtons /\ lastApplied' = NoButtons
      BY Zenon DEF Tick
    <2>2. ASSUME ConsumeNext(c)
          PROVE  \/ /\ applied' = inputRing[(lastProcessed + 1) % BufferSize].buttons
                    /\ lastApplied' = inputRing[(lastProcessed + 1) % BufferSize].buttons
                 \/ applied' = lastApplied /\ lastApplied' = lastApplied
      BY <2>2, Zenon DEF ConsumeNext
    <2>3. inputRing[(lastProcessed + 1) % BufferSize].buttons \in Nat
      BY <1>1, EntryOfNext DEF TypeOK
    <2> HIDE DEF c
    <2>4. ASSUME NoInputYet(c) \/ WaitForDeadline(c)
          PROVE  applied' = NoButtons /\ lastApplied' = lastApplied
      BY <2>4 DEF NoInputYet, WaitForDeadline
    <2>. QED BY <1>1, <2>1, <2>2, <2>3, <2>4 DEF TypeOK, NoButtons
  <1>. QED BY <1>1, <1>2, <1>4, <1>7, <1>8 DEF TypeOK, clientVars

\* A tick keeps the invariant of the stream.
LEMMA TickStream == ASSUME StreamInv, Tick PROVE StreamInv'
  <1>1. UNCHANGED <<clientVars, network, heard>> /\ TypeOK'
    BY TickCases, TickType
  <1>2. HistoryInv' /\ NetworkInv'
    BY <1>1 DEF StreamInv, HistoryInv, NetworkInv, clientVars
  <1>3. RingInv'
    <2> DEFINE seq == lastProcessed + 1
               slot == seq % BufferSize
    <2>1. /\ lastProcessed \in Nat /\ seq \in Nat /\ slot \in RingSlots
          /\ heard \subseteq Nat /\ MaxBufferedInputLead = BufferSize - 1 /\ BufferSize \in Nat
          /\ inputRing \in [RingSlots -> [seq : Nat, buttons : Nat]]
      BY EntryOfNext, BufferFacts DEF StreamInv, TypeOK
    <2>2. CASE UNCHANGED <<inputRing, lastProcessed>>
      BY <1>1, <2>2, RingKept DEF StreamInv
    <2>3. ASSUME lastProcessed' = seq,
                 \/ seq \in heard /\ inputRing' = [inputRing EXCEPT ![slot] = NoEntry]
                 \/ seq \notin heard /\ inputRing' = inputRing
          PROVE  RingInv'
      <3>1. ASSUME NEW i \in RingSlots
            PROVE  \/ inputRing'[i] = NoEntry
                   \/ \E s \in heard : s > seq /\ s % BufferSize = i /\ inputRing'[i] = Pressed(s)
        <4>1. CASE inputRing'[i] = NoEntry
          BY <4>1
        <4>2. CASE inputRing'[i] # NoEntry
          <5>1. inputRing'[i] = inputRing[i] /\ (seq \in heard => i # slot)
            BY <2>1, <2>3, <4>2
          <5>2. PICK s \in heard : s > lastProcessed /\ s % BufferSize = i /\ inputRing[i] = Pressed(s)
            BY <4>2, <5>1 DEF StreamInv, RingInv
          <5>3. s # seq
            BY <5>1, <5>2
          <5>. QED BY <2>1, <5>1, <5>2, <5>3
        <4>. QED BY <4>1, <4>2
      <3>2. ASSUME NEW s \in heard
            PROVE  /\ s > 0 /\ s <= seq + MaxBufferedInputLead
                   /\ s > seq => inputRing'[s % BufferSize] = Pressed(s)
        <4>1. /\ s \in Nat /\ s > 0 /\ s <= lastProcessed + MaxBufferedInputLead
              /\ s > lastProcessed => inputRing[s % BufferSize] = Pressed(s)
          BY <2>1 DEF StreamInv, RingInv
        <4>2. ASSUME s > seq PROVE inputRing'[s % BufferSize] = Pressed(s)
          <5>1. s % BufferSize # slot
            <6>1. seq <= s /\ s < seq + BufferSize /\ s # seq /\ s \in Int /\ seq \in Int
              BY <2>1, <4>1, <4>2
            <6>. QED BY <6>1, OneSlotEach, BufferFacts, Zenon
          <5>2. s % BufferSize \in RingSlots
            BY <4>1, BufferFacts, SlotRange DEF RingSlots
          <5>3. s > lastProcessed
            BY <2>1, <4>1, <4>2
          <5> HIDE DEF slot
          <5>. QED BY <2>1, <2>3, <4>1, <5>1, <5>2, <5>3
        <4>. QED BY <2>1, <4>1, <4>2
      <3>. QED BY <1>1, <2>3, <3>1, <3>2 DEF RingInv
    <2>. QED BY <2>2, <2>3, TickCases
  <1>. QED BY <1>1, <1>2, <1>3 DEF StreamInv

\* The invariant of the stream is inductive.
LEMMA NextStream == StreamInv /\ [Next]_vars => StreamInv'
  <1> SUFFICES ASSUME StreamInv, [Next]_vars PROVE StreamInv'
    OBVIOUS
  <1>1. CASE SendInput
    BY <1>1, SendStream
  <1>2. CASE OnInput
    BY <1>2, OnInputStream
  <1>3. CASE Tick
    BY <1>3, TickStream
  <1>4. CASE LosePacket
    <2>1. NetworkInv' /\ network' \in Seq([base : Nat \ {0}, inputs : Seq(Nat)])
      BY <1>4, NetworkKept DEF LosePacket, clientVars
    <2>2. TypeOK'
      BY <1>4, <2>1 DEF LosePacket, StreamInv, TypeOK, clientVars, roundVars, bufferVars, consumeVars
    <2>3. HistoryInv' /\ RingInv'
      BY <1>4, RingKept DEF LosePacket, StreamInv, HistoryInv, clientVars, bufferVars, consumeVars
    <2>. QED BY <2>1, <2>2, <2>3 DEF StreamInv
  <1>5. CASE ClientUnlocks \/ CommitMatchStart \/ KilledInBlast \/ LockActiveMatchInputs \/ UNCHANGED vars
    <2>1. UNCHANGED <<nextInputSeq, inputHistory, network, inputRing, lastProcessed, heard>>
      BY <1>5
      DEF ClientUnlocks, CommitMatchStart, KilledInBlast, LockActiveMatchInputs, vars, clientVars,
          bufferVars, consumeVars
    <2>2. TypeOK'
      <3>1. UnlockDelay + InputLead \in Nat /\ UnlockDelay \in Nat
        BY UnlockAssumption, LeadAssumption, BufferFacts
      <3>2. TypeOK
        BY DEF StreamInv
      <3>3. CASE ClientUnlocks
        BY <3>2, <3>3 DEF ClientUnlocks, TypeOK, roundVars, bufferVars, consumeVars
      <3>4. CASE CommitMatchStart
        BY <3>1, <3>2, <3>4 DEF CommitMatchStart, TypeOK, clientVars, bufferVars
      <3>5. CASE KilledInBlast
        BY <3>2, <3>5 DEF KilledInBlast, TypeOK, clientVars, bufferVars, NoButtons
      <3>6. CASE LockActiveMatchInputs
        BY <3>2, <3>6 DEF LockActiveMatchInputs, TypeOK, clientVars, bufferVars, consumeVars
      <3>7. CASE UNCHANGED vars
        BY <3>2, <3>7 DEF vars, TypeOK, clientVars, roundVars, bufferVars, consumeVars
      <3>. QED BY <1>5, <3>3, <3>4, <3>5, <3>6, <3>7
    <2>. QED BY <2>1, <2>2, RingKept DEF StreamInv, HistoryInv, NetworkInv
  <1>. QED BY <1>1, <1>2, <1>3, <1>4, <1>5 DEF Next

(***************************************************************************)
(* Every variable keeps its type, whatever is lost on the way.             *)
(***************************************************************************)
THEOREM TypeCorrect == Spec => []TypeOK
  <1>1. StreamInv => TypeOK
    BY DEF StreamInv
  <1>. QED BY <1>1, InitStream, NextStream, PTL DEF Spec

(***************************************************************************)
(* The ring holds exactly the sequences that reached the server in time    *)
(* and are still to be processed, each with the buttons pressed for it.    *)
(***************************************************************************)
THEOREM RingCorrect == Spec => []RingHoldsTheFuture
  <1>1. StreamInv => RingHoldsTheFuture
    <2> SUFFICES ASSUME StreamInv PROVE RingHoldsTheFuture
      OBVIOUS
    <2>1. lastProcessed \in Nat /\ heard \subseteq Nat
      BY DEF StreamInv, TypeOK
    <2>2. ASSUME NEW i \in RingSlots, inputRing[i] # NoEntry
          PROVE  \E seq \in heard : seq > lastProcessed /\ inputRing[i] = Pressed(seq)
      BY <2>2 DEF StreamInv, RingInv
    <2>3. ASSUME NEW seq \in heard, seq > lastProcessed
          PROVE  /\ seq % BufferSize \in RingSlots /\ inputRing[seq % BufferSize] = Pressed(seq)
                 /\ Pressed(seq) # NoEntry
      <3>1. seq \in Nat /\ seq # 0
        BY <2>1, <2>3
      <3>2. Pressed(seq) # NoEntry
        BY <3>1 DEF Pressed, NoEntry
      <3>3. seq % BufferSize \in RingSlots
        BY <3>1, BufferFacts, SlotRange DEF RingSlots
      <3>4. inputRing[seq % BufferSize] = Pressed(seq)
        BY <2>3, Zenon DEF StreamInv, RingInv
      <3>. QED BY <3>2, <3>3, <3>4
    <2>4. {inputRing[i] : i \in RingSlots} \ {NoEntry}
            = {Pressed(seq) : seq \in {s \in heard : s > lastProcessed}}
      BY <2>2, <2>3
    <2>. QED BY <2>4, Zenon DEF RingHoldsTheFuture, Pressed
  <1>. QED BY <1>1, InitStream, NextStream, PTL DEF Spec

(***************************************************************************)
(* Sequences are processed one by one; one heard of in time is applied     *)
(* exactly, on its own tick, and for any other the last buttons are held.  *)
(***************************************************************************)
THEOREM InputsCorrect == Spec => InputsApplyOnTheirTick
  <1> DEFINE Applies ==
        lastProcessed' # lastProcessed =>
          /\ lastProcessed' = lastProcessed + 1
          /\ IF lastProcessed' \in heard
             THEN applied' = lastProcessed'
             ELSE applied' = lastApplied /\ lastApplied' = lastApplied
  <1>1. StreamInv /\ [Next]_vars => [Applies]_vars
    <2> SUFFICES ASSUME StreamInv, [Next]_vars, lastProcessed' # lastProcessed PROVE Applies
      OBVIOUS
    <2>1. Tick
      BY DEF Next, ClientUnlocks, SendInput, LosePacket, CommitMatchStart, OnInput, KilledInBlast,
             LockActiveMatchInputs, vars, consumeVars
    <2>. QED BY <2>1, TickCases
  <1>. QED BY <1>1, InitStream, NextStream, PTL DEF Spec, InputsApplyOnTheirTick
=============================================================================
