----------------------------- MODULE InputStream -----------------------------
(***************************************************************************)
(* One player's gameplay input during one match, from the client's send    *)
(* buffer over the unreliable input channel to the command the server      *)
(* simulates each tick (NetClient::sendInput, ServerInputHandlers.cpp,     *)
(* resolveMatchPlayerInputForTick and the commit that starts its clock).   *)
(*                                                                         *)
(* The client numbers its inputs 1, 2, ... and repeats the last B of them  *)
(* in every packet.  The server keeps those ahead of the sequence it has   *)
(* processed in a ring, and from a deadline on consumes one sequence per   *)
(* tick: the exact input if it has come, else the last buttons once more.  *)
(*                                                                         *)
(* Abstractions.                                                           *)
(*  - The buttons pressed for sequence s are s itself, so that no two      *)
(*    inputs can be confused; 0 is no button.                              *)
(*  - unlockIn and consumeIn are the ticks left until currentMatchUnlock-  *)
(*    Tick and nextConsumeServerTick.  Every consumption moves both the    *)
(*    server tick and its deadline on by one, so a deadline once due is    *)
(*    due on every later tick and consumeIn stays 0.                       *)
(*  - A ring entry that is not valid is NoEntry.                           *)
(*  - ENet's unreliable packets are sequenced: a packet is delivered once, *)
(*    in order, or never.                                                  *)
(***************************************************************************)
EXTENDS Integers, Sequences, FiniteSetsExt

CONSTANTS
  BatchSize,     \* kMaxInputBatchSize
  InputLead,     \* inputLeadTicks
  UnlockDelay,   \* kMatchStartUnlockDelayTicks
  MaxSeq,        \* bound of the model: inputs the client sends
  MaxProcessed,  \* bound of the model: sequences the server processes
  MaxInFlight    \* bound of the model: packets in the network

\* kServerInputBufferSize and kMaxBufferedInputLead
BufferSize == 2 * BatchSize
MaxBufferedInputLead == BufferSize - 1

ASSUME BatchAssumption == BatchSize \in Nat \ {0}
ASSUME UnlockAssumption == UnlockDelay \in Nat \ {0}
\* --input-lead-ticks is refused outside this range (server_main.cpp).
ASSUME LeadAssumption == InputLead \in 0 .. MaxBufferedInputLead

VARIABLES
  clientUnlocked, nextInputSeq, inputHistory,   \* the client's send buffer
  network,                                      \* packets in flight, in order
  phase, unlockIn,                              \* the round, as this player has it
  locked,                                       \* inputLocked, or no longer alive
  inputRing, lastReceived, lastProcessed,       \* MatchPlayerState, Input...Seq
  applied, lastApplied,                         \* appliedButtons, lastAppliedButtons
  timelineStarted, consumeIn,
  \* History of the behaviour, read by no action.
  heard,        \* sequences that reached the server in time to be buffered
  late,         \* the first of them came after the nominal deadline
  waited        \* ticks between the arrival of the first and its consumption

clientVars == <<clientUnlocked, nextInputSeq, inputHistory>>
roundVars == <<phase, unlockIn, locked>>
bufferVars == <<inputRing, lastReceived, heard, late>>
consumeVars == <<lastProcessed, applied, lastApplied, timelineStarted, consumeIn, waited>>
vars == <<clientVars, network, roundVars, bufferVars, consumeVars>>

NoButtons == 0
Unset == -1
NoEntry == [seq |-> 0, buttons |-> NoButtons]
HistorySlots == 0 .. BatchSize - 1
RingSlots == 0 .. BufferSize - 1

Passed(left) == IF left > 0 THEN left - 1 ELSE left

-----------------------------------------------------------------------------
(* The client. *)

\* Mutant: the batch starts one input late.
BatchWithoutOldest(seq, history) ==
  LET count == Min({seq, BatchSize})
      base  == seq - count + 2
  IN  [base |-> base, inputs |-> [i \in 1 .. count - 1 |-> history[(base + i - 1) % BatchSize]]]

\* The batch that ends with sequence seq.
Batch(seq, history) ==
  LET count == Min({seq, BatchSize})
      base  == seq - count + 1
  IN  [base |-> base, inputs |-> [i \in 1 .. count |-> history[(base + i - 1) % BatchSize]]]

\* The scene polls input once a snapshot has shown it the unlock tick.
ClientUnlocks ==
  /\ ~clientUnlocked /\ ~locked
  /\ clientUnlocked' = TRUE
  /\ UNCHANGED <<nextInputSeq, inputHistory, network, roundVars, bufferVars, consumeVars>>

\* NetClient::sendInput, once per client simulation step.  A packet that cannot
\* be queued, or is lost at once, still uses up its sequence number.
SendInput ==
  LET seq == nextInputSeq + 1 IN
  /\ clientUnlocked /\ seq <= MaxSeq
  /\ nextInputSeq' = seq
  /\ inputHistory' = [inputHistory EXCEPT ![seq % BatchSize] = seq]
  /\ \/ /\ Len(network) < MaxInFlight
        /\ network' = Append(network, Batch(seq, inputHistory'))
     \/ UNCHANGED network
  /\ UNCHANGED <<clientUnlocked, roundVars, bufferVars, consumeVars>>

LosePacket ==
  /\ network # <<>>
  /\ network' = Tail(network)
  /\ UNCHANGED <<clientVars, roundVars, bufferVars, consumeVars>>

-----------------------------------------------------------------------------
(* The server. *)

\* maybeCommitMatchStart arms the consume timeline of every participant.
CommitMatchStart ==
  /\ phase = "StartingMatch"
  /\ phase' = "InMatch"
  /\ unlockIn' = UnlockDelay
  /\ timelineStarted' = TRUE
  /\ consumeIn' = UnlockDelay + InputLead
  /\ UNCHANGED <<clientVars, network, locked, bufferVars, lastProcessed, applied,
                 lastApplied, waited>>

\* Mutant: no limit to how far ahead.
BuffersAnyLead(seq) == seq > lastProcessed

\* Sequences bufferInputBatch does not skip as too late or too far ahead.
Buffers(seq) == seq > lastProcessed /\ seq <= lastProcessed + MaxBufferedInputLead

\* onInput.  A fully stale batch has nothing to buffer.
OnInput ==
  LET msg  == Head(network)
      last == msg.base + Len(msg.inputs) - 1
      new  == {seq \in msg.base .. last : Buffers(seq)}
  IN
  /\ network # <<>>
  /\ network' = Tail(network)
  /\ inputRing' = [i \in RingSlots |->
                     LET here == {seq \in new : seq % BufferSize = i} IN
                     IF here = {} THEN inputRing[i]
                     ELSE LET seq == Max(here) IN
                          [seq |-> seq, buttons |-> msg.inputs[seq - msg.base + 1]]]
  /\ lastReceived' = Max(new \cup {lastReceived})
  /\ heard' = heard \cup {seq \in last - BatchSize + 1 .. last :
                            /\ seq > lastProcessed
                            /\ seq <= lastProcessed + MaxBufferedInputLead}
  /\ late' = (late \/ (lastReceived = 0 /\ new # {} /\ consumeIn = 0))
  /\ UNCHANGED <<clientVars, roundVars, consumeVars>>

\* resolveMatchPlayerInputForTick, one operator per outcome; c is consumeIn on
\* this tick, or after the realignment of a timeline that had not started.

NoInputYet(c) ==
  /\ lastReceived = 0
  /\ applied' = NoButtons
  /\ consumeIn' = c
  /\ UNCHANGED <<inputRing, lastProcessed, lastApplied, timelineStarted, waited>>

WaitForDeadline(c) ==
  /\ lastReceived # 0 /\ c > 0
  /\ applied' = NoButtons
  /\ consumeIn' = c
  /\ timelineStarted' = TRUE
  /\ waited' = IF lastProcessed = 0 THEN waited + 1 ELSE waited
  /\ UNCHANGED <<inputRing, lastProcessed, lastApplied>>

\* The next sequence is used up on its tick, whether it has come or not.
ConsumeNext(c) ==
  LET seq == lastProcessed + 1
      entry == inputRing[seq % BufferSize]
  IN
  /\ lastReceived # 0 /\ c = 0
  /\ lastProcessed' = seq
  /\ timelineStarted' = TRUE /\ consumeIn' = 0
  /\ IF entry.seq = seq
     THEN /\ applied' = entry.buttons /\ lastApplied' = entry.buttons
          /\ inputRing' = [inputRing EXCEPT ![seq % BufferSize] = NoEntry]
     ELSE applied' = lastApplied /\ UNCHANGED <<lastApplied, inputRing>>
  /\ UNCHANGED waited

\* One simulation tick: unlock when due, then this player's share of it.
Tick ==
  LET left == Passed(unlockIn)
      due  == Passed(consumeIn)
      c    == IF lastReceived # 0 /\ ~timelineStarted THEN InputLead ELSE due
  IN
  /\ phase # "StartingMatch"
  /\ locked' = (locked /\ left # 0)
  /\ unlockIn' = IF left = 0 THEN Unset ELSE left
  /\ IF locked'
     THEN /\ applied' = NoButtons /\ lastApplied' = NoButtons
          /\ consumeIn' = due
          /\ UNCHANGED <<inputRing, lastProcessed, timelineStarted, waited>>
     ELSE /\ lastProcessed < MaxProcessed
          /\ NoInputYet(c) \/ WaitForDeadline(c) \/ ConsumeNext(c)
  /\ UNCHANGED <<clientVars, network, phase, lastReceived, heard, late>>

\* killPlayersInBlast, later in a tick that has let this player act: it may
\* happen or not, as other players' bombs have it.
KilledInBlast ==
  /\ phase = "InMatch" /\ ~locked
  /\ locked' = TRUE
  /\ applied' = NoButtons /\ lastApplied' = NoButtons
  /\ UNCHANGED <<clientVars, network, phase, unlockIn, bufferVars, lastProcessed,
                 timelineStarted, consumeIn, waited>>

\* The match ends (beginEndOfMatch), in a tick or by a disconnect.
LockActiveMatchInputs ==
  /\ phase = "InMatch"
  /\ phase' = "EndOfMatch"
  /\ locked' = TRUE /\ unlockIn' = Unset
  /\ UNCHANGED <<clientVars, network, bufferVars, consumeVars>>

-----------------------------------------------------------------------------
Init ==
  /\ clientUnlocked = FALSE /\ nextInputSeq = 0
  /\ inputHistory = [i \in HistorySlots |-> NoButtons]
  /\ network = <<>>
  /\ phase = "StartingMatch" /\ unlockIn = Unset /\ locked = TRUE
  /\ inputRing = [i \in RingSlots |-> NoEntry]
  /\ lastReceived = 0 /\ lastProcessed = 0
  /\ applied = NoButtons /\ lastApplied = NoButtons
  /\ timelineStarted = FALSE /\ consumeIn = 0
  /\ heard = {} /\ late = FALSE /\ waited = 0

Next ==
  \/ ClientUnlocks \/ SendInput \/ LosePacket
  \/ CommitMatchStart \/ OnInput \/ Tick
  \/ KilledInBlast \/ LockActiveMatchInputs

Spec == Init /\ [][Next]_vars

-----------------------------------------------------------------------------
TypeOK ==
  /\ clientUnlocked \in BOOLEAN /\ nextInputSeq \in Nat
  /\ inputHistory \in [HistorySlots -> Nat]
  /\ network \in Seq([base : Nat \ {0}, inputs : Seq(Nat)])
  /\ phase \in {"StartingMatch", "InMatch", "EndOfMatch"}
  /\ unlockIn \in Nat \cup {Unset} /\ locked \in BOOLEAN
  /\ inputRing \in [RingSlots -> [seq : Nat, buttons : Nat]]
  /\ lastReceived \in Nat /\ lastProcessed \in Nat
  /\ applied \in Nat /\ lastApplied \in Nat
  /\ timelineStarted \in BOOLEAN /\ consumeIn \in Nat
  /\ heard \subseteq Nat /\ late \in BOOLEAN /\ waited \in Nat

(***************************************************************************)
(* The ring holds exactly the future: every sequence that reached the      *)
(* server in time and is still to be processed is there, in its own slot,  *)
(* with the buttons the client pressed for it, and nothing else is.  No    *)
(* later packet pushes one out and no earlier one brings a processed one   *)
(* back.  (bufferInputBatch, sendInput's history.)                         *)
(***************************************************************************)
RingHoldsTheFuture ==
  {inputRing[i] : i \in RingSlots} \ {NoEntry} =
    {[seq |-> seq, buttons |-> seq] : seq \in {s \in heard : s > lastProcessed}}

(***************************************************************************)
(* The server processes sequences one by one and in order, at most one per *)
(* tick: a sequence heard of in any packet that came in time is applied    *)
(* exactly, on its own tick and no other; for one that was not, the last   *)
(* applied buttons are held.  (resolveMatchPlayerInputForTick, and the     *)
(* redundancy of sendInput.)                                               *)
(***************************************************************************)
InputsApplyOnTheirTick ==
  [][lastProcessed' # lastProcessed =>
       /\ lastProcessed' = lastProcessed + 1
       /\ IF lastProcessed' \in heard
          THEN applied' = lastProcessed'
          ELSE applied' = lastApplied /\ lastApplied' = lastApplied]_vars

(***************************************************************************)
(* A first input that comes after the nominal deadline is still given the  *)
(* configured lead, so that later inputs may be late by that much.         *)
(***************************************************************************)
LeadKept == late /\ lastProcessed > 0 => waited >= InputLead
=============================================================================
