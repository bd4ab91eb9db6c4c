---------------------------- MODULE MapRegistry ----------------------------
(***************************************************************************)
(* What a map manager promises its callers: per map id at most one map is  *)
(* registered at a time, a registered map is only ever replaced after it   *)
(* was forgotten, and a forgotten map never comes back.                    *)
(***************************************************************************)
CONSTANTS MapId, Map, NoMap

VARIABLES
    current,    \* the map registered under each id, or NoMap
    issued      \* the maps that were ever registered

Init ==
    /\ current = [id \in MapId |-> NoMap]
    /\ issued = {}

Register(id, m) ==
    /\ current[id] = NoMap
    /\ m \notin issued
    /\ current' = [current EXCEPT ![id] = m]
    /\ issued' = issued \cup {m}

Forget(S) ==
    /\ current' = [id \in MapId |-> IF id \in S THEN NoMap ELSE current[id]]
    /\ UNCHANGED issued

Next ==
    \/ \E id \in MapId, m \in Map : Register(id, m)
    \/ \E S \in SUBSET MapId : Forget(S)

Spec == Init /\ [][Next]_<<current, issued>>
=============================================================================
