----------------------------- MODULE MCWireTrip -----------------------------
(***************************************************************************)
(* WireTrip on a small board.  A field of 2 or 4 bytes is one of a         *)
(* thousand numbers, which no count, tick or position here comes near.     *)
(***************************************************************************)
EXTENDS WireTrip

MCModulus == [w \in {1, 2, 4} |-> IF w = 1 THEN 256 ELSE 1000]
\* None, one that fits, the longest that fits and one that is cut.
MCNames == {<<>>, <<65>>, <<65, 66>>, <<65, 66, 67, 68>>}
MCPositions == {-3, 0, 70}
=============================================================================
