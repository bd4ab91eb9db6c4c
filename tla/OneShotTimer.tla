---------------------------- MODULE OneShotTimer ----------------------------
(***************************************************************************)
(* What the caller of EventScriptScheduler.registerEntry may rely on: an   *)
(* action is accepted at most once, an accepted one fires at most once or  *)
(* is dropped (cancelled, or cleared by dispose), and a closed timer       *)
(* accepts nothing, though actions already under way may still fire.       *)
(***************************************************************************)
CONSTANTS Entry
VARIABLES state, closed
vars == <<state, closed>>

Init ==
    /\ state = [e \in Entry |-> "new"]
    /\ closed = FALSE

Accept(e) ==
    /\ ~closed
    /\ state[e] = "new"
    /\ state' = [state EXCEPT ![e] = "accepted"]
    /\ UNCHANGED closed

Reject(e) ==
    /\ closed
    /\ state[e] = "new"
    /\ state' = [state EXCEPT ![e] = "dropped"]
    /\ UNCHANGED closed

Fire(e) ==
    /\ state[e] = "accepted"
    /\ state' = [state EXCEPT ![e] = "fired"]
    /\ UNCHANGED closed

Cancel(e) ==
    /\ state[e] = "accepted"
    /\ state' = [state EXCEPT ![e] = "dropped"]
    /\ UNCHANGED closed

(* Closing drops the waiting actions but may leave some under way. *)
Close(dropped) ==
    /\ \A e \in dropped : state[e] = "accepted"
    /\ state' = [e \in Entry |-> IF e \in dropped THEN "dropped" ELSE state[e]]
    /\ closed' = TRUE

Next ==
    \/ \E e \in Entry : Accept(e) \/ Reject(e) \/ Fire(e) \/ Cancel(e)
    \/ \E dropped \in SUBSET Entry : Close(dropped)

Spec == Init /\ [][Next]_vars
=============================================================================
