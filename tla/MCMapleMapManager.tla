-------------------------- MODULE MCMapleMapManager --------------------------
(* Small instances of MapleMapManager for TLC. *)
EXTENDS MapleMapManager, TLC

CONSTANTS t1, t2, id1, id2, m1, m2, m3

TwoThreads == {t1, t2}
TwoIds == {id1, id2}
ThreeMaps == {m1, m2, m3}
==============================================================================
