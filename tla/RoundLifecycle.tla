--------------------------- MODULE RoundLifecycle ---------------------------
(***************************************************************************)
(* What the server's flow promises its players, without sessions, packets, *)
(* ready flags or deadlines: rounds happen one at a time; each is formed   *)
(* by at least two players, is either aborted before it starts or played   *)
(* to a verdict, and is then over.  A round that has been started is       *)
(* always decided: by a survivor, or as a draw.                            *)
(***************************************************************************)
EXTENDS Integers

CONSTANTS
  Seats,    \* the seats players can take
  Nobody    \* the winner of a round without one

VARIABLES
  stage,      \* "gathering", "loading", "playing" or "over"
  members,    \* the seats taking part in the current round
  issued,     \* rounds formed so far: the id of the latest one
  verdict     \* [decided, winner] of the current round

lifecycleVars == <<stage, members, issued, verdict>>

Undecided == [decided |-> FALSE, winner |-> Nobody]
Verdict(winner) == [decided |-> TRUE, winner |-> winner]

Init ==
  /\ stage = "gathering" /\ members = {}
  /\ issued = 0 /\ verdict = Undecided

Form(S) ==
  /\ stage = "gathering"
  /\ \E i, j \in S : i # j
  /\ stage' = "loading" /\ members' = S
  /\ issued' = issued + 1
  /\ UNCHANGED verdict

\* A round that cannot reach all its players is dropped as it is formed.
FormInVain ==
  /\ stage = "gathering"
  /\ issued' = issued + 1
  /\ UNCHANGED <<stage, members, verdict>>

Abort ==
  /\ stage = "loading"
  /\ stage' = "gathering" /\ members' = {}
  /\ UNCHANGED <<issued, verdict>>

Start ==
  /\ stage = "loading"
  /\ stage' = "playing"
  /\ UNCHANGED <<members, issued, verdict>>

Leave(m) ==
  /\ stage \in {"playing", "over"}
  /\ members' = members \ {m} /\ members' # {}
  /\ UNCHANGED <<stage, issued, verdict>>

\* The round is decided, by a death or by somebody leaving.
Decide(leaver, winner) ==
  /\ stage = "playing"
  /\ members' = members \ {leaver} /\ members' # {}
  /\ winner \in members' \cup {Nobody}
  /\ stage' = "over" /\ verdict' = Verdict(winner)
  /\ UNCHANGED issued

Return ==
  /\ stage = "over"
  /\ stage' = "gathering" /\ members' = {} /\ verdict' = Undecided
  /\ UNCHANGED issued

Next ==
  \/ \E S \in SUBSET Seats : Form(S)
  \/ FormInVain
  \/ Abort
  \/ Start
  \/ \E m \in Seats : Leave(m)
  \/ \E leaver \in Seats \cup {Nobody}, winner \in Seats \cup {Nobody} :
       Decide(leaver, winner)
  \/ Return

Spec == Init /\ [][Next]_lifecycleVars

\* A formed round does not load for ever, and a decided one does not stay.
FairSpec ==
  /\ Spec
  /\ WF_lifecycleVars(Abort \/ Start)
  /\ WF_lifecycleVars(Return)
=============================================================================
