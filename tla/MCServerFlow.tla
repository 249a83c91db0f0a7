--------------------------- MODULE MCServerFlow ---------------------------
(* Symmetry for checking ServerFlow, its connections and its battles with TLC. *)
EXTENDS ServerStreams, ServerBattle, TLC

Symmetry == Permutations(Peers) \cup Permutations(Names)
===========================================================================
