----------------------- MODULE MCEventScriptScheduler -----------------------
(* Small instances of EventScriptScheduler for TLC. *)
EXTENDS EventScriptScheduler, TLC

CONSTANTS e1, e2, e3, t1, t2

ThreeEntries == {e1, e2, e3}
TwoTasks == {t1, t2}

(* Sound for the refinement run only: the other one checks liveness. *)
Symmetry == Permutations(ThreeEntries) \cup Permutations(TwoTasks)
=============================================================================
