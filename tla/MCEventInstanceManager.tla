----------------------- MODULE MCEventInstanceManager -----------------------
(* Small instances of EventInstanceManager for TLC. *)
EXTENDS EventInstanceManager, TLC

CONSTANTS p1, p2, i1

TwoPlayers == {p1, p2}
OneInstance == {i1}

(* Sound for the safety run only: the liveness run leaves it out. *)
Symmetry == Permutations(TwoPlayers)
=============================================================================
