---------------------------- MODULE MCMapleTrade ----------------------------
(* A small instance of MapleTrade for TLC. *)
EXTENDS MapleTrade

CONSTANTS p1, p2, x, y

TwoPlayers == {p1, p2}
TwoGoods == {x, y}
Dealt == [g \in Good |-> IF g = x THEN p1 ELSE p2]
=============================================================================
