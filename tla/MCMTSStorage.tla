---------------------------- MODULE MCMTSStorage ----------------------------
(* Small instances of MTSStorage for TLC. *)
EXTENDS MTSStorage, TLC

CONSTANTS p1, p2, p3, x, y

ThreePlayers == {p1, p2, p3}
TwoItems == {x, y}
BothOfFirst == [i \in Item |-> p1]

(* p1 owns every item, the others are interchangeable.  The values Init    *)
(* chooses are placeholders that no guard and no property reads.           *)
Symmetry == Permutations({p2, p3}) \cup Permutations(TwoItems)
=============================================================================
