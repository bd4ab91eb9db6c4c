----------------------- MODULE MapleMapManager_proofs -----------------------
(***************************************************************************)
(* MapleMapManager implements MapRegistry, and hands out no disposed map,  *)
(* for any number of threads, ids and maps.                                *)
(***************************************************************************)
EXTENDS MapleMapManager, TLAPS

(* Nothing is registered, nobody is in a call. *)
LEMMA InitEstablishesIndInv == Init => IndInv
<1> SUFFICES ASSUME Init PROVE IndInv
    OBVIOUS
<1> USE NoneAssumption DEF Init, AboutId, AboutMap, InLoad, Looking
<1>1. TypeOK
    <2>1. /\ maps \in [MapId -> Map \cup {None}] /\ mapId \in [Map -> MapId \cup {None}]
          /\ holder \in [Map -> Thread \cup {None}]
        OBVIOUS
    <2>2. /\ pc \in [Thread -> {"idle", "closing", "disposing"} \cup AboutId \cup AboutMap]
          /\ want \in [Thread -> MapId \cup {None}]
          /\ cache \in [Thread -> BOOLEAN]
          /\ carry \in [Thread -> Map \cup {None}]
        OBVIOUS
    <2>3. QED
        BY <2>1, <2>2 DEF TypeOK
<1>2. LoaderOwnsMonitor /\ KnowsItsId /\ NewlyBuilt /\ RegisteredAlive
    BY DEF LoaderOwnsMonitor, KnowsItsId, NewlyBuilt, RegisteredAlive, made
<1>3. QED
    BY <1>1, <1>2 DEF IndInv

(* Calls, looks, loads, removals and disposals keep locks, ids and         *)
(* disposed maps in order.                                                 *)
LEMMA NextPreservesIndInv == IndInv /\ [Next]_vars => IndInv'
<1> SUFFICES ASSUME IndInv, [Next]_vars PROVE IndInv'
    OBVIOUS
<1> USE NoneAssumption DEF IndInv, TypeOK, LoaderOwnsMonitor, KnowsItsId, NewlyBuilt, RegisteredAlive,
    made, Handed, AboutId, AboutMap, InLoad, Looking, locks, objects
<1>1. ASSUME NEW t \in Thread, NEW id \in MapId, getMap(t, id) PROVE IndInv'
    BY <1>1 DEF getMap, Call
<1>2. ASSUME NEW t \in Thread, NEW id \in MapId, getDisposableMap(t, id) PROVE IndInv'
    BY <1>2 DEF getDisposableMap, Call
<1>3. ASSUME NEW t \in Thread, NEW id \in MapId, resetMap(t, id) PROVE IndInv'
    BY <1>3 DEF resetMap, Call
<1>4. ASSUME NEW t \in Thread, NEW m \in Map, removeMap(t, m) PROVE IndInv'
    BY <1>4 DEF removeMap
<1>5. ASSUME NEW t \in Thread, NEW m \in Map, UseMap(t, m) PROVE IndInv'
    BY <1>5 DEF UseMap
<1>6. ASSUME NEW t \in Thread, forceDispose(t) PROVE IndInv'
    BY <1>6 DEF forceDispose, Goto
<1>7. ASSUME NEW t \in Thread, ResetRemoves(t) PROVE IndInv'
    BY <1>7 DEF ResetRemoves, CanWrite, Goto
<1>8. ASSUME NEW t \in Thread, LockRead(t) PROVE IndInv'
    BY <1>8 DEF LockRead, Goto
<1>9. ASSUME NEW t \in Thread, Look(t) PROVE IndInv'
    <2>1. CASE maps[want[t]] # None
        <3>1. /\ readers' = readers \ {t} /\ pc' = [pc EXCEPT ![t] = "idle"]
              /\ want' = [want EXCEPT ![t] = None] /\ cache' = [cache EXCEPT ![t] = FALSE]
              /\ carry' = [carry EXCEPT ![t] = None]
              /\ pc[t] = "reading" /\ UNCHANGED <<maps, monitor, writer, holder, left, objects>>
            BY <1>9, <2>1 DEF Look, LeaveRead, Return
        <3>2. TypeOK'
            BY <3>1
        <3>3. LoaderOwnsMonitor' /\ KnowsItsId' /\ NewlyBuilt' /\ RegisteredAlive'
            BY <3>1
        <3>4. QED
            BY <3>2, <3>3
    <2>2. CASE maps[want[t]] = None
        BY <1>9, <2>2 DEF Look, LeaveRead, Goto
    <2>3. QED
        BY <2>1, <2>2
<1>10. ASSUME NEW t \in Thread, EnterLoad(t) PROVE IndInv'
    BY <1>10 DEF EnterLoad, Goto
<1>11. ASSUME NEW t \in Thread, LookAgain(t) PROVE IndInv'
    <2>1. CASE AlreadyLoaded(t)
        <3>1. /\ readers' = readers \ {t} /\ pc' = [pc EXCEPT ![t] = "idle"]
              /\ want' = [want EXCEPT ![t] = None] /\ cache' = [cache EXCEPT ![t] = FALSE]
              /\ carry' = [carry EXCEPT ![t] = None] /\ monitor' = None
              /\ pc[t] = "rereading" /\ UNCHANGED <<maps, writer, holder, left, objects>>
            BY <1>11, <2>1 DEF LookAgain, LeaveRead, Return
        <3>2. TypeOK'
            BY <3>1
        <3>3. LoaderOwnsMonitor' /\ KnowsItsId' /\ NewlyBuilt' /\ RegisteredAlive'
            BY <3>1
        <3>4. QED
            BY <3>2, <3>3
    <2>2. CASE ~AlreadyLoaded(t)
        BY <1>11, <2>2 DEF LookAgain, AlreadyLoaded, LeaveRead, Goto
    <2>3. QED
        BY <2>1, <2>2
<1>12. ASSUME NEW t \in Thread, NEW m \in Map, loadMapFromWz(t, m) PROVE IndInv'
    <2>1. CASE cache[t]
        <3>1. /\ m \notin made /\ pc[t] = "loading" /\ mapId' = [mapId EXCEPT ![m] = want[t]]
              /\ pc' = [pc EXCEPT ![t] = "putting"] /\ carry' = [carry EXCEPT ![t] = m]
              /\ UNCHANGED <<maps, locks, want, cache, left, disposed, published>>
            BY <1>12, <2>1 DEF loadMapFromWz
        <3>2. TypeOK'
            BY <3>1
        <3>3. LoaderOwnsMonitor' /\ KnowsItsId' /\ RegisteredAlive'
            BY <2>1, <3>1
        <3>4. NewlyBuilt'
            BY <2>1, <3>1
        <3>5. QED
            BY <3>2, <3>3, <3>4
    <2>2. CASE ~cache[t]
        <3>1. /\ m \notin made /\ pc[t] = "loading" /\ mapId' = [mapId EXCEPT ![m] = want[t]]
              /\ pc' = [pc EXCEPT ![t] = "idle"] /\ carry' = [carry EXCEPT ![t] = None]
              /\ want' = [want EXCEPT ![t] = None] /\ cache' = [cache EXCEPT ![t] = FALSE]
              /\ monitor' = None /\ UNCHANGED <<maps, readers, writer, holder, left, disposed, published>>
            BY <1>12, <2>2 DEF loadMapFromWz, Return
        <3>2. TypeOK'
            BY <3>1
        <3>3. LoaderOwnsMonitor' /\ KnowsItsId' /\ RegisteredAlive'
            BY <3>1
        <3>4. NewlyBuilt'
            BY <3>1
        <3>5. QED
            BY <3>2, <3>3, <3>4
    <2>3. QED
        BY <2>1, <2>2
<1>13. ASSUME NEW t \in Thread, FailLoad(t) PROVE IndInv'
    BY <1>13 DEF FailLoad, Return
<1>14. ASSUME NEW t \in Thread, Put(t) PROVE IndInv'
    BY <1>14 DEF Put, CanWrite, Return
<1>15. ASSUME NEW t \in Thread, RemoveLocked(t) PROVE IndInv'
    BY <1>15 DEF RemoveLocked, CanWrite, Return
<1>16. ASSUME NEW t \in Thread, LockWrite(t) PROVE IndInv'
    BY <1>16 DEF LockWrite, CanWrite, Goto
<1>17. ASSUME NEW t \in Thread, NEW m \in Map, DisposeMap(t, m) PROVE IndInv'
    BY <1>17 DEF DisposeMap
<1>18. ASSUME NEW t \in Thread, FinishDispose(t) PROVE IndInv'
    BY <1>18 DEF FinishDispose, Emptied, Return
<1>19. ASSUME NEW t \in Thread, LeaveMap(t) PROVE IndInv'
    BY <1>19 DEF LeaveMap, Return
<1>20. CASE dispose
    BY <1>20 DEF dispose, Emptied
<1>21. CASE UNCHANGED vars
    BY <1>21 DEF vars
<1> QED
    BY <1>1, <1>2, <1>3, <1>4, <1>5, <1>6, <1>7, <1>8, <1>9, <1>10, <1>11, <1>12, <1>13, <1>14, <1>15, <1>16, <1>17, <1>18, <1>19, <1>20, <1>21 DEF Next, GoesOn

(* Every step is a registration, a removal or invisible to the callers. *)
LEMMA StepsImplementRegistry == IndInv /\ [Next]_vars => [Registry!Next]_<<maps, published>>
<1> SUFFICES ASSUME IndInv, Next PROVE [Registry!Next]_<<maps, published>>
    BY DEF vars
<1> USE DEF IndInv, TypeOK, objects
<1>1. ASSUME NEW S \in SUBSET MapId,
             maps' = [id \in MapId |-> IF id \in S THEN None ELSE maps[id]], UNCHANGED published
      PROVE Registry!Next
    BY <1>1 DEF Registry!Next, Registry!Forget
<1>2. ASSUME NEW t \in Thread, ResetRemoves(t) PROVE Registry!Next
    <2>1. maps' = [id \in MapId |-> IF id \in {want[t]} THEN None ELSE maps[id]] /\ UNCHANGED published
        BY <1>2 DEF ResetRemoves
    <2>2. {want[t]} \in SUBSET MapId
        BY <1>2 DEF ResetRemoves, AboutId
    <2>3. QED
        BY <2>1, <2>2, <1>1
<1>3. ASSUME NEW t \in Thread, RemoveLocked(t) PROVE Registry!Next
    <2>1. /\ maps' = [id \in MapId |-> IF id \in {mapId[carry[t]]} THEN None ELSE maps[id]]
          /\ UNCHANGED published
        BY <1>3 DEF RemoveLocked
    <2>2. {mapId[carry[t]]} \in SUBSET MapId
        BY <1>3 DEF RemoveLocked, NewlyBuilt, made
    <2>3. QED
        BY <2>1, <2>2, <1>1
<1>4. ASSUME Emptied, UNCHANGED published PROVE Registry!Next
    <2>1. maps' = [id \in MapId |-> IF id \in MapId THEN None ELSE maps[id]]
        BY <1>4 DEF Emptied
    <2>2. QED
        BY <2>1, <1>1, <1>4
<1>5. ASSUME NEW t \in Thread, Put(t) PROVE Registry!Next
    <2>1. want[t] \in MapId /\ maps[want[t]] = None /\ carry[t] \in Map \ published
        BY <1>5 DEF Put, LoaderOwnsMonitor, NewlyBuilt, AboutId, AboutMap, InLoad
    <2>2. Registry!Register(want[t], carry[t])
        BY <1>5, <2>1 DEF Put, Registry!Register
    <2>3. QED
        BY <2>1, <2>2 DEF Registry!Next
<1>6. ASSUME NEW t \in Thread, NEW id \in MapId, getMap(t, id) \/ getDisposableMap(t, id) \/ resetMap(t, id)
      PROVE UNCHANGED <<maps, published>>
    BY <1>6 DEF getMap, getDisposableMap, resetMap, Call
<1>7. ASSUME NEW t \in Thread, NEW m \in Map, removeMap(t, m) \/ UseMap(t, m) \/ loadMapFromWz(t, m) \/ DisposeMap(t, m)
      PROVE UNCHANGED <<maps, published>>
    BY <1>7 DEF removeMap, UseMap, loadMapFromWz, DisposeMap
<1>8. ASSUME NEW t \in Thread,
             \/ forceDispose(t) \/ LockRead(t) \/ Look(t) \/ EnterLoad(t)
             \/ LookAgain(t) \/ FailLoad(t) \/ LockWrite(t) \/ LeaveMap(t)
      PROVE UNCHANGED <<maps, published>>
    BY <1>8 DEF forceDispose, LockRead, Look, EnterLoad, LookAgain, FailLoad, LockWrite, LeaveMap
<1>9. CASE dispose \/ \E t \in Thread : FinishDispose(t)
    BY <1>4, <1>9 DEF dispose, FinishDispose
<1> QED
    BY <1>2, <1>3, <1>5, <1>6, <1>7, <1>8, <1>9 DEF Next, GoesOn

(* The strengthened invariant holds throughout. *)
THEOREM IndInvHolds == Spec => []IndInv
<1> QED
    BY InitEstablishesIndInv, NextPreservesIndInv, PTL DEF Spec

(* The fields keep their types. *)
THEOREM TypeCorrect == Spec => []TypeOK
<1>1. IndInv => TypeOK
    BY DEF IndInv
<1> QED
    BY <1>1, IndInvHolds, PTL

(* Whenever callers may look, no registered map was disposed. *)
THEOREM RegisteredMapsAlive == Spec => []RegisteredAlive
<1>1. IndInv => RegisteredAlive
    BY DEF IndInv
<1> QED
    BY <1>1, IndInvHolds, PTL

(* The double-checked loading implements the registry. *)
THEOREM RefinesRegistry == Spec => ImplementsRegistry
<1>1. Init => Registry!Init
    BY DEF Init, Registry!Init
<1>2. QED
    BY <1>1, IndInvHolds, StepsImplementRegistry, PTL DEF Spec, ImplementsRegistry, Registry!Spec
=============================================================================
