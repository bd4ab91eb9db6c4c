--------------------- MODULE EventInstanceManager_proofs ---------------------
(***************************************************************************)
(* The safety properties of EventInstanceManager for any set of players    *)
(* and instances and any number of threads that race to dispose.           *)
(***************************************************************************)
EXTENDS EventInstanceManager, TLAPS

(* No instance exists, nobody is anywhere. *)
LEMMA InitEstablishesIndInv == Init => IndInv
<1> SUFFICES ASSUME Init PROVE IndInv
    OBVIOUS
<1> USE NoneAssumption, ClosersAssumption DEF Init
<1>1. TypeOK
    <2>1. /\ phase \in [Instance -> {"unborn", "setup", "joining", "started"}]
          /\ starter \in [Instance -> Player \cup {None}]
          /\ entering \in [Instance -> Player \cup {None}]
        OBVIOUS
    <2>2. /\ eventInstance \in [Player -> Instance \cup {None}]
          /\ exitRead \in [Player -> Instance \cup {None}]
        OBVIOUS
    <2>3. /\ toRegister \in [Instance -> SUBSET Player]
          /\ chars \in [Instance -> SUBSET Player]
          /\ leaving \in [Instance -> SUBSET Player]
          /\ expelling \in [Instance -> SUBSET Player]
          /\ late \in [Instance -> SUBSET Player]
        OBVIOUS
    <2>4. /\ closing \in [Instance -> 0..MaxClosers]
          /\ eventTimer \in [Instance -> {"none", "clock", "event"}]
          /\ ringing \in [Instance -> SUBSET {"clock", "event"}]
        OBVIOUS
    <2>5. QED
        BY <2>1, <2>2, <2>3, <2>4 DEF TypeOK
<1>2. PointerHasSeat /\ EntryIntoLiveInstance /\ DisposedWithPlayersOnlyByRace
    BY DEF PointerHasSeat, EntryIntoLiveInstance, DisposedWithPlayersOnlyByRace
<1>3. UnbornUntouched /\ CleanupOrder /\ ClosersSawEmpty
    BY DEF UnbornUntouched, CleanupOrder, ClosersSawEmpty
<1>4. QED
    BY <1>1, <1>2, <1>3 DEF IndInv

(* Every step of a session, a timer or a sweeper keeps seats, closers and  *)
(* clean-up consistent.                                                    *)
LEMMA NextPreservesIndInv == IndInv /\ [Next]_vars => IndInv'
<1> SUFFICES ASSUME IndInv, [Next]_vars PROVE IndInv'
    OBVIOUS
<1> USE NoneAssumption, ClosersAssumption DEF
    IndInv, TypeOK, PointerHasSeat, EntryIntoLiveInstance, DisposedWithPlayersOnlyByRace,
    UnbornUntouched, CleanupOrder, ClosersSawEmpty
<1>1. ASSUME NEW p \in Player, NEW group \in SUBSET Player, NEW i \in Instance,
             startPlayerInstance(p, group, i)
      PROVE IndInv'
    <2>1. SetTimers(i)
        BY <1>1 DEF startPlayerInstance
    <2>2. /\ eventTimer' \in [Instance -> {"none", "clock", "event"}]
          /\ timing' \subseteq Instance /\ limitless' \subseteq Instance /\ starting' \subseteq Instance
        BY <2>1 DEF SetTimers, startEventTimer, createEventTimer
    <2>3. TypeOK'
        <3>1. /\ phase' \in [Instance -> {"unborn", "setup", "joining", "started"}]
              /\ starter' \in [Instance -> Player \cup {None}]
              /\ toRegister' \in [Instance -> SUBSET Player]
              /\ registered' \subseteq Instance /\ watching' \subseteq Instance
            BY <1>1 DEF startPlayerInstance
        <3>2. QED
            BY <1>1, <2>2, <3>1, Zenon DEF startPlayerInstance, seats
    <2>4. UnbornUntouched' /\ CleanupOrder' /\ ClosersSawEmpty'
        BY <1>1 DEF startPlayerInstance, seats
    <2>5. PointerHasSeat' /\ EntryIntoLiveInstance' /\ DisposedWithPlayersOnlyByRace'
        BY <1>1 DEF startPlayerInstance, seats
    <2>6. QED
        BY <2>3, <2>4, <2>5
<1>2. ASSUME NEW i \in Instance, FailSetup(i) PROVE IndInv'
    BY <1>2 DEF FailSetup, seats, timers, clock, methods
<1>3. ASSUME NEW i \in Instance, registerGroup(i) PROVE IndInv'
    BY <1>3 DEF registerGroup, seats, timers, clock, methods
<1>4. ASSUME NEW i \in Instance, PlayerEntry(i) PROVE IndInv'
    BY <1>4 DEF PlayerEntry, life, seats, clock
<1>5. ASSUME NEW i \in Instance, startEvent(i) PROVE IndInv'
    BY <1>5 DEF startEvent, seats, calls, timers, clock, methods
<1>6. ASSUME NEW i \in Instance, NEW p \in Player, registerPlayer(i, p) PROVE IndInv'
    <2>1. CASE ~MayEnter(i, p)
        BY <1>6, <2>1 DEF registerPlayer, life, seats, timers, clock, methods
    <2>2. CASE MayEnter(i, p)
        BY <1>6, <2>2, SMTT(30) DEF registerPlayer, MayEnter, life, timers, clock, methods
    <2>3. QED
        BY <2>1, <2>2
<1>7. ASSUME NEW i \in Instance, NEW p \in Player, unregisterPlayer(i, p) PROVE IndInv'
    BY <1>7 DEF unregisterPlayer, ClearField, SeenEmpty, getPlayers, WillDispose, life, timers, clock, methods
<1>8. ASSUME NEW i \in Instance, NEW p \in Player, exitParty(i, p) PROVE IndInv'
    BY <1>8 DEF exitParty, Detach, Without, SeenEmpty, getPlayers, WillDispose, life, timers, clock, methods
<1>9. ASSUME NEW p \in Player, ReadEventInstance(p) PROVE IndInv'
    BY <1>9 DEF ReadEventInstance, life, seats, timers, clock, methods
<1>10. ASSUME NEW p \in Player, exitPlayer(p) PROVE IndInv'
    BY <1>10 DEF exitPlayer, Detach, Without, SeenEmpty, getPlayers, WillDispose, life, timers, clock, methods
<1>11. ASSUME NEW i \in Instance, victory(i) PROVE IndInv'
    BY <1>11 DEF victory, startEventTimer, seats, calls, methods
<1>12. ASSUME NEW i \in Instance, scheduledTimeout(i) PROVE IndInv'
    BY <1>12 DEF scheduledTimeout, dismissEventTimer, getPlayers, life, seats, methods
<1>13. ASSUME NEW i \in Instance, RunScheduled(i) PROVE IndInv'
    BY <1>13 DEF RunScheduled, getPlayers, life, seats, clock
<1>14. ASSUME NEW i \in Instance, timer(i) PROVE IndInv'
    BY <1>14 DEF timer, SeenEmpty, getPlayers, WillDispose, life, seats, calls, clock, methods
<1>15. ASSUME NEW i \in Instance, Sweep(i) PROVE IndInv'
    BY <1>15 DEF Sweep, SeenEmpty, getPlayers, WillDispose, life, seats, calls, timers, clock, methods
<1>16. ASSUME NEW i \in Instance, dispose(i) PROVE IndInv'
    BY <1>16 DEF dispose, MonitorFree, MarkDisposed, CleanupJobs, seats, calls, methods
<1>17. ASSUME NEW i \in Instance, KickJob(i) PROVE IndInv'
    BY <1>17 DEF KickJob, life, calls, clock
<1>18. ASSUME NEW i \in Instance, UnloadJob(i) PROVE IndInv'
    BY <1>18 DEF UnloadJob, seats, calls, clock, methods
<1>19. ASSUME NEW i \in Instance, RunStart(i) PROVE IndInv'
    BY <1>19 DEF RunStart, startEventTimer, life, seats, calls
<1>20. ASSUME NEW i \in Instance, stopEventTimer(i) PROVE IndInv'
    BY <1>20 DEF stopEventTimer, life, seats, calls, methods
<1>21. ASSUME NEW i \in Instance, Ring(i) PROVE IndInv'
    BY <1>21 DEF Ring, life, seats, calls, methods
<1>22. ASSUME NEW i \in Instance, ClockRunsOut(i) PROVE IndInv'
    BY <1>22 DEF ClockRunsOut, dismissEventTimer, life, seats, calls, methods
<1>23. CASE UNCHANGED vars
    BY <1>23 DEF vars
<1>24. QED
    BY <1>1, <1>2, <1>3, <1>4, <1>5, <1>6, <1>7, <1>8, <1>9, <1>10, <1>11, <1>12, <1>13, <1>14,
       <1>15, <1>16, <1>17, <1>18, <1>19, <1>20, <1>21, <1>22, <1>23 DEF Next

(* The strengthened invariant holds throughout. *)
THEOREM IndInvHolds == Spec => []IndInv
<1> QED
    BY InitEstablishesIndInv, NextPreservesIndInv, PTL DEF Spec

(* The fields of players and instances keep their types. *)
THEOREM TypeCorrect == Spec => []TypeOK
<1>1. IndInv => TypeOK
    BY DEF IndInv
<1> QED
    BY <1>1, IndInvHolds, PTL

(* No character points to a running instance that does not know it. *)
THEOREM PointersHaveSeats == Spec => []PointerHasSeat
<1>1. IndInv => PointerHasSeat
    BY DEF IndInv
<1> QED
    BY <1>1, IndInvHolds, PTL

(* The entry script of a disposed instance never runs. *)
THEOREM EntriesAreLive == Spec => []EntryIntoLiveInstance
<1>1. IndInv => EntryIntoLiveInstance
    BY DEF IndInv
<1> QED
    BY <1>1, IndInvHolds, PTL

(* Only the window between a closer's look and its dispose can leave a     *)
(* player in a disposed instance.                                          *)
THEOREM OnlyRaceStrands == Spec => []DisposedWithPlayersOnlyByRace
<1>1. IndInv => DisposedWithPlayersOnlyByRace
    BY DEF IndInv
<1> QED
    BY <1>1, IndInvHolds, PTL

(* The unloading job of an instance runs once. *)
THEOREM UnloadsOnce == Spec => []UnloadedOnce
<1>1. IndInv => UnloadedOnce
    BY DEF IndInv, CleanupOrder, UnloadedOnce
<1> QED
    BY <1>1, IndInvHolds, PTL

(* An instance that was forgotten was disposed and is not known again. *)
THEOREM ForgottenIsFinal == Spec => ForgottenForGood
<1> DEFINE Step == \A i \in Instance : phase[i] # "unborn" /\ i \notin registered
                        => i \in disposed /\ i \notin registered'
<1>1. IndInv /\ [Next]_vars => [Step]_vars
    <2> SUFFICES ASSUME IndInv, Next,
                        NEW i \in Instance, phase[i] # "unborn", i \notin registered
                 PROVE i \in disposed /\ i \notin registered'
        OBVIOUS
    <2>1. i \in disposed
        BY DEF IndInv, CleanupOrder
    <2>2. i \notin registered'
        BY DEF IndInv, TypeOK, Next, startPlayerInstance, FailSetup, registerGroup, PlayerEntry, startEvent,
            registerPlayer, unregisterPlayer, exitParty, ReadEventInstance, exitPlayer, victory,
            scheduledTimeout, RunScheduled, RunStart, stopEventTimer, Ring, ClockRunsOut,
            timer, Sweep, dispose, KickJob, UnloadJob, life
    <2>3. QED
        BY <2>1, <2>2
<1>2. QED
    BY <1>1, IndInvHolds, PTL DEF Spec, ForgottenForGood
=============================================================================
